---- MODULE Spec2Model ----
(***************************************************************************)
(* PipeStock: the inventory ledger and its batch commit engine.            *)
(*                                                                         *)
(* The database (items, stock_heads, inventory_tx) is the shared state.    *)
(* Every HTTP request runs in its own session: its reads see the committed *)
(* rows, its writes stay private to the session until it commits, and the  *)
(* store admits one writing session at a time (wlock).  A request handler  *)
(* is cut into one action per database interaction, so that requests       *)
(* interleave exactly where the code touches the database.                 *)
(***************************************************************************)
EXTENDS Integers, Sequences, FiniteSets, TLC

(* ------------------------------ bounds --------------------------------- *)

\* largest qty a request body carries
MaxQty == 1

\* longest transactions list a request body carries
MaxBatch == 2

\* number of HTTP requests (commit or delete) served in one behaviour of
\* Spec, where one caller sends any body, valid or not
MaxCalls == 2

\* number of HTTP requests served in one behaviour of SpecRace, where two
\* callers race with the bodies of RaceBodies
MaxRaceCalls == 3

\* SpecUnit: one request of one caller, with bodies of up to MaxUnitBatch
\* valid transactions of qty up to MaxUnitQty that carry reasons and keys
MaxUnitQty == 3

MaxUnitBatch == 2

MaxUnitCalls == 1

\* SpecValidation: number of requests of one caller, who sends every body of
\* up to MaxValBatch transactions of qty 0..MaxValQty, valid or not
MaxValQty == 1

MaxValBatch == 2

MaxValCalls == 2

\* SpecEntries: number of requests of one caller, with bodies of up to
\* MaxEntryBatch transactions IN or OUT of qty 1 that carry reasons and keys
MaxEntryBatch == 2

MaxEntryCalls == 2

\* SpecConcat: number of requests of one caller, with single transactions,
\* two pairs and two long batches of IN
MaxConcatCalls == 2

\* SpecItems: number of requests of two callers who create, update and
\* soft-delete products next to single transactions
MaxItemCalls == 4

\* SpecAtomic: number of requests of two callers whose commits run statement
\* by statement, and the page size of the history they read
MaxAtomicCalls == 3

MaxAtomicPerPage == 2

\* SpecSize: number of requests of the caller who sends lists of every size
MaxSizeCalls == 3

\* SpecHistory: number of requests of two callers who commit and read the
\* history, and the pages and page sizes they ask for
MaxHistoryCalls == 3

MaxPage == 2

MaxPerPage == 2

\* SpecDashboard: number of ledger entries, highest unit_price and highest
\* limit of the dashboard queries
MaxDashEntries == 3

MaxPrice == 1

MaxLimit == 1

\* the pages and page sizes of the stock list
MaxStockPage == 2

MaxStockPerPage == 2

\* number of requests issued in one behaviour of SpecRetry, each of them sent
\* again for as long as it is answered CONFLICT
MaxRetryCalls == 3

\* number of requests served in one behaviour of SpecBackfill
MaxBackfillCalls == 3

\* the products, in the order they are created (ids are generated)
ProductSeq == <<"p1", "p2">>

\* the product codes: CodeSeq[i] is the code the i-th product is created with
\* where the request's code is left open
CodeSeq == <<"k1", "k2">>

Codes == {CodeSeq[i] : i \in 1..Len(CodeSeq)}

\* an absent ItemUpdate.code
NoCode == "None"

Products == {ProductSeq[i] : i \in 1..Len(ProductSeq)}

\* the request slots, in the order a new request takes a free one
CallerSeq == <<"c1", "c2">>

Callers == {CallerSeq[i] : i \in 1..Len(CallerSeq)}

\* request_id values a body may carry; NoKey is an absent request_id
NoKey == "None"

Keys == {NoKey, "r1"}

(* ------------------------- program constants --------------------------- *)

\* TxBatchCreate.transactions: Field(..., min_length=1, max_length=10)
BatchMinLength == 1

BatchMaxLength == 10

\* TxCreate.qty: Field(..., ge=1)
QtyMin == 1

\* StockHead.version of a new row
StockHeadInitVersion == 0

\* Item.version default
ItemInitVersion == 1

TxTypes == {"IN", "OUT", "ADJUST", "RESERVE", "UNRESERVE"}

Directions == {"INCREASE", "DECREASE"}

NoDirection == "None"

\* an absent TxCreate.reason
NoReason == "None"

(* ------------------------------ state ---------------------------------- *)

VARIABLES
    items,          \* table items: per product [exists, code, active, version]
    stock_heads,    \* table stock_heads: per product [exists, version]
    inventory_tx,   \* table inventory_tx: the committed rows, in insert order
    wlock,          \* the session holding the store's write lock, or "None"
    tx,             \* uncommitted writes of the session holding wlock
    pc,             \* per caller: position of its request handler
    local,          \* per caller: the handler's local variables
    nreq,           \* requests accepted so far
    wins            \* successful create_txs calls: [req, item, expected_version]

vars == <<items, stock_heads, inventory_tx, wlock, tx, pc, local, nreq, wins>>

(* ------------------------- pure functions ------------------------------ *)

RECURSIVE SumDelta_allItems(_, _, _)
\* the sum without its filter on item_id
SumDelta_allItems(rows, item_id, bucket) ==
    IF rows = << >> THEN 0
    ELSE LET r == Head(rows)
         IN (IF r.bucket = bucket THEN r.qty_delta ELSE 0)
            + SumDelta_allItems(Tail(rows), item_id, bucket)

RECURSIVE SumDelta(_, _, _)
\* SUM(qty_delta) over the rows of one item and one bucket, 0 when empty
SumDelta(rows, item_id, bucket) ==
    IF rows = << >> THEN 0
    ELSE LET r == Head(rows)
         IN (IF r.item_id = item_id /\ r.bucket = bucket THEN r.qty_delta ELSE 0)
            + SumDelta(Tail(rows), item_id, bucket)

\* available computed as on_hand + reserved
StockLevel_availableSum(on_hand, reserved) ==
    [on_hand |-> on_hand, reserved |-> reserved, available |-> on_hand + reserved]

StockLevel(on_hand, reserved) ==
    [on_hand |-> on_hand, reserved |-> reserved, available |-> on_hand - reserved]

calc_stock(rows, item_id) ==
    StockLevel(SumDelta(rows, item_id, "ON_HAND"), SumDelta(rows, item_id, "RESERVED"))

\* _TX_RESOLVE: type -> (bucket, sign multiplier)
TX_RESOLVE(type) ==
    CASE type = "IN"        -> [bucket |-> "ON_HAND",  sign |-> 1]
      [] type = "OUT"       -> [bucket |-> "ON_HAND",  sign |-> -1]
      [] type = "RESERVE"   -> [bucket |-> "RESERVED", sign |-> 1]
      [] type = "UNRESERVE" -> [bucket |-> "RESERVED", sign |-> -1]

\* ADJUST resolved without looking at its direction
resolve_tx_ignoresDirection(t) ==
    IF t.type = "ADJUST"
    THEN [type |-> "ADJUST", bucket |-> "ON_HAND", qty_delta |-> t.qty]
    ELSE [type |-> t.type, bucket |-> TX_RESOLVE(t.type).bucket,
          qty_delta |-> TX_RESOLVE(t.type).sign * t.qty]

resolve_tx(t) ==
    IF t.type = "ADJUST"
    THEN [type |-> "ADJUST", bucket |-> "ON_HAND",
          qty_delta |-> (IF t.direction = "INCREASE" THEN 1 ELSE -1) * t.qty]
    ELSE [type |-> t.type, bucket |-> TX_RESOLVE(t.type).bucket,
          qty_delta |-> TX_RESOLVE(t.type).sign * t.qty]

\* TxCreate with qty >= 0
TxCreateValid_zeroQty(t) ==
    /\ t.type \in TxTypes
    /\ t.qty >= 0
    /\ t.direction \in Directions \cup {NoDirection}
    /\ IF t.type = "ADJUST" THEN t.direction # NoDirection
                            ELSE t.direction = NoDirection

\* TxCreate without its check_direction validator
TxCreateValid_noDirectionCheck(t) ==
    /\ t.type \in TxTypes
    /\ t.qty >= QtyMin
    /\ t.direction \in Directions \cup {NoDirection}

\* TxCreate: Literal type, qty >= 1, and the check_direction validator
TxCreateValid(t) ==
    /\ t.type \in TxTypes
    /\ t.qty >= QtyMin
    /\ t.direction \in Directions \cup {NoDirection}
    /\ IF t.type = "ADJUST" THEN t.direction # NoDirection
                            ELSE t.direction = NoDirection

\* TxBatchCreate without the bounds on its length
TxBatchCreateValid_anyLength(body) ==
    \A i \in 1..Len(body) : TxCreateValid(body[i])

\* TxBatchCreate: 1..10 valid TxCreate
TxBatchCreateValid(body) ==
    /\ Len(body) >= BatchMinLength
    /\ Len(body) <= BatchMaxLength
    /\ \A i \in 1..Len(body) : TxCreateValid(body[i])

RECURSIVE SumBucket(_, _)
\* sum(qd for _, b, qd in resolved if b == bucket)
SumBucket(tx_inputs, bucket) ==
    IF tx_inputs = << >> THEN 0
    ELSE LET r == resolve_tx(Head(tx_inputs))
         IN (IF r.bucket = bucket THEN r.qty_delta ELSE 0)
            + SumBucket(Tail(tx_inputs), bucket)

\* the projected stock with reserved left as it was read
Projected_reservedStale(current, tx_inputs) ==
    StockLevel(current.on_hand + SumBucket(tx_inputs, "ON_HAND"), current.reserved)

\* the projected stock after ALL txs of the batch
Projected(current, tx_inputs) ==
    StockLevel(current.on_hand + SumBucket(tx_inputs, "ON_HAND"),
               current.reserved + SumBucket(tx_inputs, "RESERVED"))

\* INV-3 refusing an available of exactly 0
InvariantCheck_availablePositive(new) ==
    IF new.on_hand < 0 THEN "INSUFFICIENT_ON_HAND"
    ELSE IF new.reserved < 0 THEN "INSUFFICIENT_RESERVED"
    ELSE IF new.available <= 0 THEN "INSUFFICIENT_AVAILABLE"
    ELSE "OK"

\* INV-2 tested before INV-1
InvariantCheck_reservedFirst(new) ==
    IF new.reserved < 0 THEN "INSUFFICIENT_RESERVED"
    ELSE IF new.on_hand < 0 THEN "INSUFFICIENT_ON_HAND"
    ELSE IF new.available < 0 THEN "INSUFFICIENT_AVAILABLE"
    ELSE "OK"

\* INV-1, INV-2, INV-3 in the order the code tests them; "OK" when none fails
InvariantCheck(new) ==
    IF new.on_hand < 0 THEN "INSUFFICIENT_ON_HAND"
    ELSE IF new.reserved < 0 THEN "INSUFFICIENT_RESERVED"
    ELSE IF new.available < 0 THEN "INSUFFICIENT_AVAILABLE"
    ELSE "OK"

RECURSIVE Validate_prefixes(_, _)
\* INV-1..3 tested after each transaction of the batch in turn
Validate_prefixes(current, tx_inputs) ==
    IF tx_inputs = << >> THEN "OK"
    ELSE LET after == Projected(current, <<Head(tx_inputs)>>)
         IN IF InvariantCheck(after) # "OK" THEN InvariantCheck(after)
            ELSE Validate_prefixes(after, Tail(tx_inputs))

\* "project new stock after ALL txs", then INV-1..3 on the projection
Validate(current, tx_inputs) == InvariantCheck(Projected(current, tx_inputs))

\* the rows of a batch created last intent first
NewRows_reversed(item_id, tx_inputs, req) ==
    [i \in 1..Len(tx_inputs) |->
        LET r == resolve_tx(tx_inputs[Len(tx_inputs) + 1 - i])
        IN [id |-> <<req, i>>, item_id |-> item_id, type |-> r.type,
            bucket |-> r.bucket, qty_delta |-> r.qty_delta,
            reason |-> tx_inputs[Len(tx_inputs) + 1 - i].reason,
            request_id |-> tx_inputs[Len(tx_inputs) + 1 - i].request_id]]

\* the InventoryTx rows of a batch, in input order; id is unique per row
NewRows(item_id, tx_inputs, req) ==
    [i \in 1..Len(tx_inputs) |->
        LET r == resolve_tx(tx_inputs[i])
        IN [id |-> <<req, i>>, item_id |-> item_id, type |-> r.type,
            bucket |-> r.bucket, qty_delta |-> r.qty_delta,
            reason |-> tx_inputs[i].reason,
            request_id |-> tx_inputs[i].request_id]]

\* request_id unique per item only
UniqueViolation_perItem(visible, row) ==
    /\ row.request_id # NoKey
    /\ \E j \in 1..Len(visible) : /\ visible[j].request_id = row.request_id
                                  /\ visible[j].item_id = row.item_id

\* request_id without its unique constraint
UniqueViolation_none(visible, row) == FALSE

\* inventory_tx.request_id is UNIQUE (NULLs never collide): would inserting
\* row violate it against the rows already visible to the session
UniqueViolation(visible, row) ==
    /\ row.request_id # NoKey
    /\ \E j \in 1..Len(visible) : visible[j].request_id = row.request_id

RECURSIVE InsertAll(_, _)
\* db.add + flush of rows one by one on top of the visible rows: the rows
\* inserted before the first IntegrityError, and whether one was raised
InsertAll(visible, rows) ==
    IF rows = << >> THEN [inserted |-> << >>, error |-> FALSE]
    ELSE IF UniqueViolation(visible, Head(rows))
         THEN [inserted |-> << >>, error |-> TRUE]
         ELSE LET rest == InsertAll(Append(visible, Head(rows)), Tail(rows))
              IN [inserted |-> <<Head(rows)>> \o rest.inserted, error |-> rest.error]

(* ---------------------------- requests --------------------------------- *)

RawTypes == TxTypes \cup {"MOVE"}

\* the JSON bodies of one transaction a client may send, valid or not
\* (reason is free text that no check looks at: these bodies leave it out)
RawTx ==
    [type : RawTypes, qty : 0..MaxQty,
     direction : Directions \cup {NoDirection}, reason : {NoReason},
     request_id : Keys]

\* the transactions lists a client may send (a single POST sends a list of one)
Bodies == UNION {[1..n -> RawTx] : n \in 0..MaxBatch}

NoStock == StockLevel(0, 0)

\* an absent type or bucket filter of list_transactions
NoFilter == "None"

\* the others total of an absent dashboard answer
NoOthers == [on_hand |-> 0, reserved_total |-> 0, available |-> 0]

NoQuery == [type |-> NoFilter, bucket |-> NoFilter, page |-> 0, per_page |-> 0]

NoLocal ==
    [op |-> "none", item |-> "None", raw |-> << >>, tx_inputs |-> << >>,
     code |-> NoCode, item_version |-> 0,
     expected_version |-> 0, new_stock |-> NoStock, created |-> << >>,
     query |-> NoQuery, total |-> 0, data |-> << >>, others |-> NoOthers,
     result |-> "None", req |-> 0]

NoTx == [version |-> 0, rows |-> << >>]

Init ==
    /\ items = [p \in Products |->
                  [exists |-> FALSE, code |-> NoCode, active |-> FALSE, version |-> 0]]
    /\ stock_heads = [p \in Products |-> [exists |-> FALSE, version |-> 0]]
    /\ inventory_tx = << >>
    /\ wlock = "None"
    /\ tx = NoTx
    /\ pc = [c \in Callers |-> "idle"]
    /\ local = [c \in Callers |-> NoLocal]
    /\ nreq = 0
    /\ wins = {}

\* callers are interchangeable request slots: a new request takes a fixed
\* one among the free slots
FreeSlot(c) ==
    \E i \in 1..Len(CallerSeq) :
        /\ CallerSeq[i] = c
        /\ pc[c] = "idle"
        /\ \A j \in 1..(i - 1) : pc[CallerSeq[j]] # "idle"

\* the handler of caller c ends with an error: its session is closed
Fail(c, code) ==
    /\ pc' = [pc EXCEPT ![c] = "done"]
    /\ local' = [local EXCEPT ![c].result = code]

(* POST /api/v1/products: create_item. The item and its StockHead are     *)
(* added and committed as one unit.                                        *)
\* the id a new product gets: the first of ProductSeq not in use
NextProduct(p) ==
    \E i \in 1..Len(ProductSeq) :
        /\ ProductSeq[i] = p
        /\ ~items[p].exists
        /\ \A j \in 1..(i - 1) : items[ProductSeq[j]].exists

\* the Item row of a new product
NewItem(code) ==
    [exists |-> TRUE, code |-> code, active |-> TRUE, version |-> ItemInitVersion]

\* the StockHead row of a new product
NewStockHead == [exists |-> TRUE, version |-> StockHeadInitVersion]

\* items.code is UNIQUE: would giving product p the code violate it
CodeTaken(p, code) ==
    \E q \in Products \ {p} : items[q].exists /\ items[q].code = code

\* here the request carries a code of its own (the i-th product CodeSeq[i])
\* and its response is not looked at
create_item(p) ==
    /\ NextProduct(p)
    /\ wlock = "None"
    /\ items' = [items EXCEPT ![p] =
                    NewItem(CodeSeq[CHOOSE i \in 1..Len(ProductSeq) : ProductSeq[i] = p])]
    /\ stock_heads' = [stock_heads EXCEPT ![p] = NewStockHead]
    /\ UNCHANGED <<inventory_tx, wlock, tx, pc, local, nreq, wins>>

\* create_item committing the Item before the StockHead is added
post_item_withoutStockHead(c, code) ==
    /\ FreeSlot(c)
    /\ wlock = "None"
    /\ nreq' = nreq + 1
    /\ pc' = [pc EXCEPT ![c] = "done"]
    /\ IF CodeTaken("None", code)
       THEN /\ local' = [local EXCEPT ![c] =
                 [NoLocal EXCEPT !.op = "create", !.code = code, !.req = nreq + 1,
                                 !.result = "VALIDATION_ERROR"]]
            /\ UNCHANGED <<items, stock_heads>>
       ELSE \E p \in Products :
            /\ NextProduct(p)
            /\ items' = [items EXCEPT ![p] = NewItem(code)]
            /\ local' = [local EXCEPT ![c] =
                 [NoLocal EXCEPT !.op = "create", !.item = p, !.code = code,
                                 !.req = nreq + 1, !.result = "OK"]]
            /\ UNCHANGED stock_heads
    /\ UNCHANGED <<inventory_tx, wlock, tx, wins>>

(* POST /api/v1/products with a code chosen by the client: the flush         *)
(* inserts the Item behind the store's write lock, or raises IntegrityError  *)
(* on a code in use; then the StockHead is added and both are committed. A   *)
(* failed request is rolled back and answers VALIDATION_ERROR.               *)
post_item(c, code) ==
    /\ FreeSlot(c)
    /\ wlock = "None"
    /\ nreq' = nreq + 1
    /\ pc' = [pc EXCEPT ![c] = "done"]
    /\ IF CodeTaken("None", code)
       THEN /\ local' = [local EXCEPT ![c] =
                 [NoLocal EXCEPT !.op = "create", !.code = code, !.req = nreq + 1,
                                 !.result = "VALIDATION_ERROR"]]
            /\ UNCHANGED <<items, stock_heads>>
       ELSE \E p \in Products :
            /\ NextProduct(p)
            /\ items' = [items EXCEPT ![p] = NewItem(code)]
            /\ stock_heads' = [stock_heads EXCEPT ![p] = NewStockHead]
            /\ local' = [local EXCEPT ![c] =
                 [NoLocal EXCEPT !.op = "create", !.item = p, !.code = code,
                                 !.req = nreq + 1, !.result = "OK"]]
    /\ UNCHANGED <<inventory_tx, wlock, tx, wins>>

\* create_txs without its inactive-item check
InactiveCheck_skipped(item) == FALSE

\* create_txs, "INV-8: inactive item": the check made on the loaded Item
InactiveCheck(item) == ~item.active

(* POST .../transactions[/batch] with a body that TxCreate/TxBatchCreate   *)
(* refuse: FastAPI raises RequestValidationError before the handler runs,  *)
(* whatever the product; validation_error_handler answers 400. The body    *)
(* never becomes a list of TxCreate: it stays the raw JSON of the request. *)
reject_body(c, p, body) ==
    /\ FreeSlot(c)
    /\ ~TxBatchCreateValid(body)
    /\ nreq' = nreq + 1
    /\ pc' = [pc EXCEPT ![c] = "done"]
    /\ local' = [local EXCEPT ![c] =
         [NoLocal EXCEPT !.op = "commit", !.item = p, !.req = nreq + 1,
                         !.raw = body, !.result = "VALIDATION_ERROR"]]
    /\ UNCHANGED <<items, stock_heads, inventory_tx, wlock, tx, wins>>

(* POST .../transactions[/batch] with a valid body: the Item is loaded     *)
(* (_get_item_or_404) and create_txs tests item.active on the loaded Item. *)
create_transaction(c, p, body) ==
    /\ FreeSlot(c)
    /\ TxBatchCreateValid(body)
    /\ nreq' = nreq + 1
    /\ IF ~items[p].exists
       THEN /\ pc' = [pc EXCEPT ![c] = "done"]
            /\ local' = [local EXCEPT ![c] =
                 [NoLocal EXCEPT !.op = "commit", !.item = p, !.req = nreq + 1,
                                 !.tx_inputs = body, !.result = "PRODUCT_NOT_FOUND"]]
       ELSE IF InactiveCheck(items[p])
       THEN /\ pc' = [pc EXCEPT ![c] = "done"]
            /\ local' = [local EXCEPT ![c] =
                 [NoLocal EXCEPT !.op = "commit", !.item = p, !.req = nreq + 1,
                                 !.tx_inputs = body, !.result = "PRODUCT_INACTIVE"]]
       ELSE /\ pc' = [pc EXCEPT ![c] = "read_head"]
            /\ local' = [local EXCEPT ![c] =
                 [NoLocal EXCEPT !.op = "commit", !.item = p, !.req = nreq + 1,
                                 !.tx_inputs = body]]
    /\ UNCHANGED <<items, stock_heads, inventory_tx, wlock, tx, wins>>

\* every session reading the writes of the session that holds the write lock
SessionRows_uncommitted(c) == inventory_tx \o tx.rows

(* get_db gives each request a session of its own on the store: a session  *)
(* sees the committed rows of inventory_tx and its own uncommitted ones     *)
SessionRows(c) == IF wlock = c THEN inventory_tx \o tx.rows ELSE inventory_tx

\* every session reading the uncommitted version of the writing session
SessionVersion_uncommitted(c, p) ==
    IF wlock # "None" /\ local[wlock].item = p THEN tx.version
    ELSE stock_heads[p].version

\* ... and the committed StockHead.version, or its own uncommitted one
SessionVersion(c, p) ==
    IF wlock = c /\ local[c].item = p THEN tx.version ELSE stock_heads[p].version

(* create_txs, "Read current optimistic-lock version"                      *)
read_head(c) ==
    /\ pc[c] = "read_head"
    /\ IF ~stock_heads[local[c].item].exists
       THEN Fail(c, "CONFLICT")
       ELSE /\ pc' = [pc EXCEPT ![c] = "calc_stock"]
            /\ local' = [local EXCEPT
                 ![c].expected_version = SessionVersion(c, local[c].item)]
    /\ UNCHANGED <<items, stock_heads, inventory_tx, wlock, tx, nreq, wins>>

(* create_txs, resolve + calc_stock + projection + INV-1..3                *)
project_and_check(c) ==
    /\ pc[c] = "calc_stock"
    /\ LET current == calc_stock(SessionRows(c), local[c].item)
           new == Projected(current, local[c].tx_inputs)
       IN IF Validate(current, local[c].tx_inputs) # "OK"
          THEN Fail(c, Validate(current, local[c].tx_inputs))
          ELSE /\ pc' = [pc EXCEPT ![c] = "write"]
               /\ local' = [local EXCEPT ![c].new_stock = new]
    /\ UNCHANGED <<items, stock_heads, inventory_tx, wlock, tx, nreq, wins>>

\* the UPDATE matching no row
VersionMatches_never(stored, expected_version) == FALSE

\* the UPDATE without its WHERE version == expected_version
VersionMatches_unguarded(stored, expected_version) == TRUE

\* the UPDATE with WHERE version >= expected_version
VersionMatches_atleast(stored, expected_version) == stored >= expected_version

\* UPDATE stock_heads ... WHERE version == expected_version: does the row match
VersionMatches(stored, expected_version) == stored = expected_version

\* the version bumped once per transaction of the batch
BumpedVersion_perEntry(expected_version, tx_inputs) == expected_version + Len(tx_inputs)

\* .values(version=expected_version + 1), whatever the batch
BumpedVersion(expected_version, tx_inputs) == expected_version + 1

\* except IntegrityError: the SAVEPOINT is rolled back and the session is
\* closed without commit, so of the rows flushed before the error none
\* reaches the table ...
RowsAfterRollback(inserted) == << >>

\* the bump survives the IntegrityError
VersionAfterRollback_kept(stored, bumped) == bumped

\* ... and the stored version is the one before the bump
VersionAfterRollback(stored, bumped) == stored

(* create_txs, the SAVEPOINT block: the conditional UPDATE of stock_heads  *)
(* takes the store's write lock and sees the committed row; the rows are   *)
(* added and flushed behind it. All of it stays private to the session.    *)
(* A CONFLICT or an IntegrityError rolls the block back and ends the call. *)
write_batch(c) ==
    /\ pc[c] = "write"
    /\ wlock = "None"
    /\ LET item == local[c].item
           stored == stock_heads[item].version
           bumped == BumpedVersion(local[c].expected_version, local[c].tx_inputs)
           rows == NewRows(item, local[c].tx_inputs, local[c].req)
           ins == InsertAll(inventory_tx, rows)
       IN IF ~VersionMatches(stored, local[c].expected_version)
          THEN /\ Fail(c, "CONFLICT")
               /\ UNCHANGED <<wlock, tx, stock_heads, inventory_tx>>
          ELSE IF ins.error
          THEN /\ Fail(c, "DUPLICATE_REQUEST_ID")
               /\ stock_heads' = [stock_heads EXCEPT
                                    ![item].version = VersionAfterRollback(stored, bumped)]
               /\ inventory_tx' = inventory_tx \o RowsAfterRollback(ins.inserted)
               /\ UNCHANGED <<wlock, tx>>
          ELSE /\ tx' = [version |-> bumped, rows |-> ins.inserted]
               /\ wlock' = c
               /\ pc' = [pc EXCEPT ![c] = "commit"]
               /\ UNCHANGED <<local, stock_heads, inventory_tx>>
    /\ UNCHANGED <<items, nreq, wins>>

(* create_txs, leaving the SAVEPOINT + db.commit(): the bump and the rows  *)
(* become visible together; the created rows and the projected StockLevel  *)
(* are returned.                                                           *)
commit(c) ==
    /\ pc[c] = "commit"
    /\ wlock = c
    /\ stock_heads' = [stock_heads EXCEPT ![local[c].item].version = tx.version]
    /\ inventory_tx' = inventory_tx \o tx.rows
    /\ wlock' = "None"
    /\ tx' = NoTx
    /\ wins' = wins \cup {[req |-> local[c].req, item |-> local[c].item,
                           expected_version |-> local[c].expected_version]}
    /\ pc' = [pc EXCEPT ![c] = "done"]
    /\ local' = [local EXCEPT ![c].result = "OK", ![c].created = tx.rows]
    /\ UNCHANGED <<items, nreq>>

(* The SAVEPOINT block statement by statement. First the conditional       *)
(* UPDATE of stock_heads: it takes the store's write lock and matches the  *)
(* committed row, or matches none and the call ends with CONFLICT.         *)
update_stock_head(c) ==
    /\ pc[c] = "write"
    /\ wlock = "None"
    /\ LET item == local[c].item
           stored == stock_heads[item].version
           bumped == BumpedVersion(local[c].expected_version, local[c].tx_inputs)
       IN IF ~VersionMatches(stored, local[c].expected_version)
          THEN /\ Fail(c, "CONFLICT")
               /\ UNCHANGED <<wlock, tx>>
          ELSE /\ tx' = [version |-> bumped, rows |-> << >>]
               /\ wlock' = c
               /\ pc' = [pc EXCEPT ![c] = "flush"]
               /\ UNCHANGED local
    /\ UNCHANGED <<items, stock_heads, inventory_tx, nreq, wins>>

(* db.flush(): the INSERT of the next row of the batch. A row whose        *)
(* request_id is in use raises IntegrityError: the session is closed       *)
(* without commit and the bump and the rows inserted so far are undone.    *)
flush_row(c) ==
    /\ pc[c] = "flush"
    /\ wlock = c
    /\ LET item == local[c].item
           rows == NewRows(item, local[c].tx_inputs, local[c].req)
           i == Len(tx.rows) + 1
       IN IF UniqueViolation(SessionRows(c), rows[i])
          THEN /\ Fail(c, "DUPLICATE_REQUEST_ID")
               /\ stock_heads' = [stock_heads EXCEPT
                    ![item].version = VersionAfterRollback(stock_heads[item].version,
                                                          tx.version)]
               /\ inventory_tx' = inventory_tx \o RowsAfterRollback(tx.rows)
               /\ tx' = NoTx
               /\ wlock' = "None"
          ELSE /\ tx' = [tx EXCEPT !.rows = Append(tx.rows, rows[i])]
               /\ pc' = [pc EXCEPT ![c] = IF i = Len(rows) THEN "commit" ELSE "flush"]
               /\ UNCHANGED <<local, stock_heads, inventory_tx, wlock>>
    /\ UNCHANGED <<items, nreq, wins>>

\* the positions of create_txs before db.commit() has run
BeforeCommit == {"read_head", "calc_stock", "write", "flush", "commit"}

\* a session closed with its writes kept
abandon_keepsWrites(c) ==
    /\ pc[c] \in BeforeCommit
    /\ pc' = [pc EXCEPT ![c] = "done"]
    /\ local' = [local EXCEPT ![c].result = "ABANDONED",
                             ![c].created = IF wlock = c THEN tx.rows ELSE << >>]
    /\ IF wlock = c
       THEN /\ stock_heads' = [stock_heads EXCEPT ![local[c].item].version = tx.version]
            /\ inventory_tx' = inventory_tx \o tx.rows
            /\ tx' = NoTx
            /\ wlock' = "None"
       ELSE UNCHANGED <<stock_heads, inventory_tx, tx, wlock>>
    /\ UNCHANGED <<items, nreq, wins>>

(* the request ends before db.commit() has run (the handler is cancelled   *)
(* or raises): get_db closes the session, which rolls back what it wrote;  *)
(* created keeps the rows the session had flushed when it was closed       *)
abandon(c) ==
    /\ pc[c] \in BeforeCommit
    /\ pc' = [pc EXCEPT ![c] = "done"]
    /\ local' = [local EXCEPT ![c].result = "ABANDONED",
                             ![c].created = IF wlock = c THEN tx.rows ELSE << >>]
    /\ IF wlock = c
       THEN /\ stock_heads' = [stock_heads EXCEPT
                 ![local[c].item].version =
                     VersionAfterRollback(stock_heads[local[c].item].version, tx.version)]
            /\ inventory_tx' = inventory_tx \o RowsAfterRollback(tx.rows)
            /\ tx' = NoTx
            /\ wlock' = "None"
       ELSE UNCHANGED <<stock_heads, inventory_tx, tx, wlock>>
    /\ UNCHANGED <<items, nreq, wins>>

(* DELETE /api/v1/products/{id}: delete_item loads the Item ...            *)
delete_item(c, p) ==
    /\ FreeSlot(c)
    /\ nreq' = nreq + 1
    /\ IF ~items[p].exists
       THEN /\ pc' = [pc EXCEPT ![c] = "done"]
            /\ local' = [local EXCEPT ![c] =
                 [NoLocal EXCEPT !.op = "delete", !.item = p, !.req = nreq + 1,
                                 !.result = "PRODUCT_NOT_FOUND"]]
       ELSE /\ pc' = [pc EXCEPT ![c] = "delete_commit"]
            /\ local' = [local EXCEPT ![c] =
                 [NoLocal EXCEPT !.op = "delete", !.item = p, !.req = nreq + 1,
                                 !.item_version = items[p].version]]
    /\ UNCHANGED <<items, stock_heads, inventory_tx, wlock, tx, wins>>

\* delete_item removing the product's ledger entries with it
delete_item_commit_purgesEntries(c) ==
    /\ pc[c] = "delete_commit"
    /\ wlock = "None"
    /\ items' = [items EXCEPT ![local[c].item].active = FALSE,
                              ![local[c].item].version = local[c].item_version + 1]
    /\ inventory_tx' = SelectSeq(inventory_tx, LAMBDA r : r.item_id # local[c].item)
    /\ pc' = [pc EXCEPT ![c] = "done"]
    /\ local' = [local EXCEPT ![c].result = "OK"]
    /\ UNCHANGED <<stock_heads, wlock, tx, nreq, wins>>

(* ... and writes active = False, version = loaded version + 1 at commit   *)
delete_item_commit(c) ==
    /\ pc[c] = "delete_commit"
    /\ wlock = "None"
    /\ items' = [items EXCEPT ![local[c].item].active = FALSE,
                              ![local[c].item].version = local[c].item_version + 1]
    /\ pc' = [pc EXCEPT ![c] = "done"]
    /\ local' = [local EXCEPT ![c].result = "OK"]
    /\ UNCHANGED <<stock_heads, inventory_tx, wlock, tx, nreq, wins>>

(* PATCH /api/v1/products/{id}: update_item loads the Item and compares its *)
(* version with the one of the body ...                                    *)
update_item(c, p, version, code) ==
    /\ FreeSlot(c)
    /\ nreq' = nreq + 1
    /\ IF ~items[p].exists
       THEN /\ pc' = [pc EXCEPT ![c] = "done"]
            /\ local' = [local EXCEPT ![c] =
                 [NoLocal EXCEPT !.op = "update", !.item = p, !.code = code,
                                 !.req = nreq + 1, !.result = "PRODUCT_NOT_FOUND"]]
       ELSE IF items[p].version # version
       THEN /\ pc' = [pc EXCEPT ![c] = "done"]
            /\ local' = [local EXCEPT ![c] =
                 [NoLocal EXCEPT !.op = "update", !.item = p, !.code = code,
                                 !.req = nreq + 1, !.result = "CONFLICT"]]
       ELSE /\ pc' = [pc EXCEPT ![c] = "update_commit"]
            /\ local' = [local EXCEPT ![c] =
                 [NoLocal EXCEPT !.op = "update", !.item = p, !.code = code,
                                 !.req = nreq + 1, !.item_version = items[p].version]]
    /\ UNCHANGED <<items, stock_heads, inventory_tx, wlock, tx, wins>>

\* update_item bumping the product's StockHead along with the Item
update_item_commit_bumpsStockHead(c) ==
    /\ pc[c] = "update_commit"
    /\ wlock = "None"
    /\ pc' = [pc EXCEPT ![c] = "done"]
    /\ IF local[c].code # NoCode /\ CodeTaken(local[c].item, local[c].code)
       THEN /\ local' = [local EXCEPT ![c].result = "VALIDATION_ERROR"]
            /\ UNCHANGED <<items, stock_heads>>
       ELSE /\ items' = [items EXCEPT
                 ![local[c].item].code =
                     IF local[c].code = NoCode THEN @ ELSE local[c].code,
                 ![local[c].item].version = local[c].item_version + 1]
            /\ stock_heads' = [stock_heads EXCEPT ![local[c].item].version = @ + 1]
            /\ local' = [local EXCEPT ![c].result = "OK"]
    /\ UNCHANGED <<inventory_tx, wlock, tx, nreq, wins>>

(* ... and writes the fields of the body and version = loaded version + 1  *)
(* at commit; a code in use raises IntegrityError: rollback,               *)
(* VALIDATION_ERROR                                                        *)
update_item_commit(c) ==
    /\ pc[c] = "update_commit"
    /\ wlock = "None"
    /\ pc' = [pc EXCEPT ![c] = "done"]
    /\ IF local[c].code # NoCode /\ CodeTaken(local[c].item, local[c].code)
       THEN /\ local' = [local EXCEPT ![c].result = "VALIDATION_ERROR"]
            /\ UNCHANGED items
       ELSE /\ items' = [items EXCEPT
                 ![local[c].item].code =
                     IF local[c].code = NoCode THEN @ ELSE local[c].code,
                 ![local[c].item].version = local[c].item_version + 1]
            /\ local' = [local EXCEPT ![c].result = "OK"]
    /\ UNCHANGED <<stock_heads, inventory_tx, wlock, tx, nreq, wins>>

(* InventoryTx.occurred_at, default=_utcnow: the time of the INSERT, which  *)
(* runs behind the store's write lock. The rows of a later commit carry a  *)
(* later time than those of an earlier one; the rows of one flush may      *)
(* carry the same time. Here: the place in the table of the first row of   *)
(* the flush that inserted r.                                              *)
occurred_at(rows, r) ==
    CHOOSE j \in 1..Len(rows) :
        /\ rows[j].id[1] = r.id[1]
        /\ \A k \in 1..(j - 1) : rows[k].id[1] # r.id[1]

\* list_transactions without its filter on item_id
Matching_anyItem(rows, p, q) ==
    SelectSeq(rows, LAMBDA r : /\ q.type = NoFilter \/ r.type = q.type
                               /\ q.bucket = NoFilter \/ r.bucket = q.bucket)

\* list_transactions, the query: the rows of the product that pass the type
\* and bucket filters given
Matching(rows, p, q) ==
    SelectSeq(rows, LAMBDA r : /\ r.item_id = p
                               /\ q.type = NoFilter \/ r.type = q.type
                               /\ q.bucket = NoFilter \/ r.bucket = q.bucket)

\* the rows in every order of their places
Orders(rows) ==
    {[i \in 1..Len(rows) |-> rows[f[i]]] :
        f \in {g \in [1..Len(rows) -> 1..Len(rows)] :
                  \A i, j \in 1..Len(rows) : i # j => g[i] # g[j]}}

\* ORDER BY occurred_at ascending
OrderByOccurredAtDesc_ascending(all, rows) ==
    {s \in Orders(rows) :
        \A i, j \in 1..Len(s) :
            i < j => occurred_at(all, s[i]) <= occurred_at(all, s[j])}

\* .order_by(InventoryTx.occurred_at.desc()): the orders in which the store
\* may return the selected rows (rows of equal time come in any order)
OrderByOccurredAtDesc(all, rows) ==
    {s \in Orders(rows) :
        \A i, j \in 1..Len(s) :
            i < j => occurred_at(all, s[i]) >= occurred_at(all, s[j])}

\* .offset(offset).limit(limit)
OffsetLimit(rows, offset, limit) ==
    SubSeq(rows, offset + 1, IF offset + limit < Len(rows) THEN offset + limit
                             ELSE Len(rows))

(* GET .../transactions: list_transactions loads the Item and counts the   *)
(* rows of the query ...                                                   *)
list_transactions(c, p, q) ==
    /\ FreeSlot(c)
    /\ nreq' = nreq + 1
    /\ IF ~items[p].exists
       THEN /\ pc' = [pc EXCEPT ![c] = "done"]
            /\ local' = [local EXCEPT ![c] =
                 [NoLocal EXCEPT !.op = "list", !.item = p, !.req = nreq + 1,
                                 !.query = q, !.result = "PRODUCT_NOT_FOUND"]]
       ELSE /\ pc' = [pc EXCEPT ![c] = "list_rows"]
            /\ local' = [local EXCEPT ![c] =
                 [NoLocal EXCEPT !.op = "list", !.item = p, !.req = nreq + 1,
                                 !.query = q,
                                 !.total = Len(Matching(SessionRows(c), p, q))]]
    /\ UNCHANGED <<items, stock_heads, inventory_tx, wlock, tx, wins>>

(* ... and, in a second statement, selects the page of them                *)
list_rows(c) ==
    /\ pc[c] = "list_rows"
    /\ LET q == local[c].query
           all == SessionRows(c)
       IN \E s \in OrderByOccurredAtDesc(all, Matching(all, local[c].item, q)) :
            local' = [local EXCEPT
                ![c].data = OffsetLimit(s, (q.page - 1) * q.per_page, q.per_page),
                ![c].result = "OK"]
    /\ pc' = [pc EXCEPT ![c] = "done"]
    /\ UNCHANGED <<items, stock_heads, inventory_tx, wlock, tx, nreq, wins>>

(* PUT or DELETE on .../transactions/{id}: the router has no such route    *)
transaction_not_allowed(c, p) ==
    /\ FreeSlot(c)
    /\ nreq' = nreq + 1
    /\ pc' = [pc EXCEPT ![c] = "done"]
    /\ local' = [local EXCEPT ![c] =
         [NoLocal EXCEPT !.op = "modify", !.item = p, !.req = nreq + 1,
                         !.result = "METHOD_NOT_ALLOWED"]]
    /\ UNCHANGED <<items, stock_heads, inventory_tx, wlock, tx, wins>>

(* the response is sent; the caller may issue its next request             *)
respond(c) ==
    /\ pc[c] = "done"
    /\ pc' = [pc EXCEPT ![c] = "idle"]
    /\ local' = [local EXCEPT ![c] = NoLocal]
    /\ UNCHANGED <<items, stock_heads, inventory_tx, wlock, tx, nreq, wins>>

\* the bodies validation lets through, and a body it refuses if there is one
Accepted(bodies) == {body \in bodies : TxBatchCreateValid(body)}

Refused(bodies) ==
    IF \A body \in bodies : TxBatchCreateValid(body) THEN {}
    ELSE {CHOOSE body \in bodies : ~TxBatchCreateValid(body)}

\* one step of the system with the given request slots, accepted and refused
\* request bodies and number of requests
NextOf(callers, accepted, refused, max_calls) ==
    \/ \E p \in Products : create_item(p)
    \/ /\ nreq < max_calls
       /\ \E c \in callers :
             FreeSlot(c) /\ \E p \in Products, body \in refused : reject_body(c, p, body)
    \/ /\ nreq < max_calls
       /\ \E c \in callers :
             FreeSlot(c) /\ \E p \in Products, body \in accepted :
                               create_transaction(c, p, body)
    \/ \E c \in callers : read_head(c)
    \/ \E c \in callers : project_and_check(c)
    \/ \E c \in callers : write_batch(c)
    \/ \E c \in callers : commit(c)
    \/ \E c \in callers, p \in Products : nreq < max_calls /\ delete_item(c, p)
    \/ \E c \in callers : delete_item_commit(c)
    \/ \E c \in callers : respond(c)

AcceptedBodies == Accepted(Bodies)

RefusedBodies == Refused(Bodies)

\* one caller, every body
Next == NextOf({CallerSeq[1]}, AcceptedBodies, RefusedBodies, MaxCalls)

Spec == Init /\ [][Next]_vars

\* the bodies of SpecRace: the empty list, or one transaction of qty 1
\* without direction
RaceBodies ==
    {<< >>} \cup
    {<<[type |-> t, qty |-> QtyMin, direction |-> NoDirection,
        reason |-> NoReason, request_id |-> k]>> :
        t \in TxTypes \ {"ADJUST"}, k \in Keys}

AcceptedRaceBodies == Accepted(RaceBodies)

RefusedRaceBodies == Refused(RaceBodies)

\* two callers racing
NextRace == NextOf(Callers, AcceptedRaceBodies, RefusedRaceBodies, MaxRaceCalls)

SpecRace == Init /\ [][NextRace]_vars

\* reasons a body of SpecUnit may carry
Reasons == {NoReason, "note"}

\* the valid transactions of SpecUnit
UnitTx ==
    {t \in [type : TxTypes, qty : QtyMin..MaxUnitQty,
            direction : Directions \cup {NoDirection}, reason : Reasons,
            request_id : Keys] : TxCreateValid(t)}

UnitBodies == UNION {[1..n -> UnitTx] : n \in 0..MaxUnitBatch}

AcceptedUnitBodies == Accepted(UnitBodies)

RefusedUnitBodies == Refused(UnitBodies)

\* one caller, one request
NextUnit == NextOf({CallerSeq[1]}, AcceptedUnitBodies, RefusedUnitBodies, MaxUnitCalls)

SpecUnit == Init /\ [][NextUnit]_vars

\* the transactions of SpecValidation: every type, known or not, with or
\* without direction, of qty 0..MaxValQty
ValTx ==
    [type : RawTypes, qty : 0..MaxValQty,
     direction : Directions \cup {NoDirection}, reason : {NoReason},
     request_id : {NoKey}]

ValBodies == UNION {[1..n -> ValTx] : n \in 0..MaxValBatch}

AcceptedValBodies == Accepted(ValBodies)

\* every body validation refuses
RefusedValBodies == ValBodies \ AcceptedValBodies

\* one caller, every refused body
NextValidation ==
    NextOf({CallerSeq[1]}, AcceptedValBodies, RefusedValBodies, MaxValCalls)

SpecValidation == Init /\ [][NextValidation]_vars

\* the transactions of SpecEntries
EntryTx ==
    [type : {"IN", "OUT"}, qty : {QtyMin}, direction : {NoDirection},
     reason : Reasons, request_id : Keys]

EntryBodies == UNION {[1..n -> EntryTx] : n \in 0..MaxEntryBatch}

AcceptedEntryBodies == Accepted(EntryBodies)

RefusedEntryBodies == Refused(EntryBodies)

\* one caller, bodies with reasons and keys
NextEntries ==
    NextOf({CallerSeq[1]}, AcceptedEntryBodies, RefusedEntryBodies, MaxEntryCalls)

SpecEntries == Init /\ [][NextEntries]_vars

(* a transactions request served on its own, without any other request in *)
(* between, from the committed rows and StockHead.version it finds: the    *)
(* result, the rows and version it leaves, and the StockLevel it returns   *)
post_transactions(rows, version, item, item_id, body, req) ==
    LET refused(code) ==
            [result |-> code, rows |-> rows, version |-> version, stock |-> NoStock]
        current == calc_stock(rows, item_id)
        ins == InsertAll(rows, NewRows(item_id, body, req))
    IN IF ~TxBatchCreateValid(body) THEN refused("VALIDATION_ERROR")
       ELSE IF ~item.exists THEN refused("PRODUCT_NOT_FOUND")
       ELSE IF InactiveCheck(item) THEN refused("PRODUCT_INACTIVE")
       ELSE IF Validate(current, body) # "OK" THEN refused(Validate(current, body))
       ELSE IF ins.error THEN refused("DUPLICATE_REQUEST_ID")
       ELSE [result |-> "OK", rows |-> rows \o ins.inserted,
             version |-> BumpedVersion(version, body),
             stock |-> Projected(current, body)]

\* a transaction without direction, reason or key
PlainTx(type) ==
    [type |-> type, qty |-> QtyMin, direction |-> NoDirection,
     reason |-> NoReason, request_id |-> NoKey]

\* the bodies of SpecConcat: the empty list, every single transaction, the
\* pairs OUT, IN and RESERVE, IN, and n times IN for n = half the longest
\* batch and one more
ConcatBodies ==
    {<< >>}
    \cup {<<PlainTx(t)>> : t \in TxTypes \ {"ADJUST"}}
    \cup {<<PlainTx("OUT"), PlainTx("IN")>>, <<PlainTx("RESERVE"), PlainTx("IN")>>}
    \cup {[i \in 1..n |-> PlainTx("IN")] :
            n \in {BatchMaxLength \div 2, BatchMaxLength \div 2 + 1}}

AcceptedConcatBodies == Accepted(ConcatBodies)

RefusedConcatBodies == Refused(ConcatBodies)

NextConcat ==
    NextOf({CallerSeq[1]}, AcceptedConcatBodies, RefusedConcatBodies, MaxConcatCalls)

SpecConcat == Init /\ [][NextConcat]_vars

\* the bodies of SpecItems: the empty list, IN 1, OUT 1
ItemBodies == {<< >>, <<PlainTx("IN")>>, <<PlainTx("OUT")>>}

AcceptedItemBodies == Accepted(ItemBodies)

RefusedItemBodies == Refused(ItemBodies)

\* the Item.version values a PATCH body may carry
ItemVersions == ItemInitVersion..(ItemInitVersion + 1)

\* two callers on the products' and the transactions' endpoints; products
\* are created by requests
NextItems ==
    \/ /\ nreq < MaxItemCalls
       /\ \E c \in Callers, code \in Codes : post_item(c, code)
    \/ /\ nreq < MaxItemCalls
       /\ \E c \in Callers, p \in Products, version \in ItemVersions,
             code \in Codes \cup {NoCode} : update_item(c, p, version, code)
    \/ \E c \in Callers : update_item_commit(c)
    \/ /\ nreq < MaxItemCalls
       /\ \E c \in Callers, p \in Products : delete_item(c, p)
    \/ \E c \in Callers : delete_item_commit(c)
    \/ /\ nreq < MaxItemCalls
       /\ \E c \in Callers, p \in Products : transaction_not_allowed(c, p)
    \/ /\ nreq < MaxItemCalls
       /\ \E c \in Callers, p \in Products, body \in RefusedItemBodies :
             reject_body(c, p, body)
    \/ /\ nreq < MaxItemCalls
       /\ \E c \in Callers, p \in Products, body \in AcceptedItemBodies :
             create_transaction(c, p, body)
    \/ \E c \in Callers : read_head(c)
    \/ \E c \in Callers : project_and_check(c)
    \/ \E c \in Callers : write_batch(c)
    \/ \E c \in Callers : commit(c)
    \/ \E c \in Callers : respond(c)

SpecItems == Init /\ [][NextItems]_vars

\* the bodies of SpecSize: n times IN for n = 0, the shortest and the longest
\* list allowed, and one more
SizeBodies ==
    {[i \in 1..n |-> PlainTx("IN")] :
        n \in {0, BatchMinLength, BatchMaxLength, BatchMaxLength + 1}}

AcceptedSizeBodies == Accepted(SizeBodies)

\* every body of SpecSize validation refuses
RefusedSizeBodies == SizeBodies \ AcceptedSizeBodies

\* one caller, lists of every size
NextSize == NextOf({CallerSeq[1]}, AcceptedSizeBodies, RefusedSizeBodies, MaxSizeCalls)

SpecSize == Init /\ [][NextSize]_vars

\* the bodies of SpecHistory: the empty list, IN, and IN followed by RESERVE
HistoryBodies ==
    {<< >>, <<PlainTx("IN")>>, <<PlainTx("IN"), PlainTx("RESERVE")>>}

AcceptedHistoryBodies == Accepted(HistoryBodies)

RefusedHistoryBodies == Refused(HistoryBodies)

\* list_transactions: page >= 1, per_page >= 1
PageMin == 1

PerPageMin == 1

\* the queries of SpecHistory: with or without a type and a bucket filter
Queries ==
    [type : {NoFilter, "IN"}, bucket : {NoFilter, "RESERVED"},
     page : PageMin..MaxPage, per_page : PerPageMin..MaxPerPage]

\* two callers who commit and read the history
NextHistory ==
    \/ \E p \in Products : create_item(p)
    \/ /\ nreq < MaxHistoryCalls
       /\ \E c \in Callers :
             FreeSlot(c) /\ \E p \in Products, body \in RefusedHistoryBodies :
                               reject_body(c, p, body)
    \/ /\ nreq < MaxHistoryCalls
       /\ \E c \in Callers :
             FreeSlot(c) /\ \E p \in Products, body \in AcceptedHistoryBodies :
                               create_transaction(c, p, body)
    \/ /\ nreq < MaxHistoryCalls
       /\ \E c \in Callers :
             FreeSlot(c) /\ \E p \in Products, q \in Queries : list_transactions(c, p, q)
    \/ \E c \in Callers : list_rows(c)
    \/ \E c \in Callers : read_head(c)
    \/ \E c \in Callers : project_and_check(c)
    \/ \E c \in Callers : write_batch(c)
    \/ \E c \in Callers : commit(c)
    \/ \E c \in Callers : respond(c)

SpecHistory == Init /\ [][NextHistory]_vars

\* a transaction IN of one unit carrying the request_id k
KeyedIn(k) ==
    [type |-> "IN", qty |-> QtyMin, direction |-> NoDirection,
     reason |-> NoReason, request_id |-> k]

\* the bodies of SpecAtomic: the empty list, one transaction, and batches of
\* two whose second transaction carries a request_id, new or the first's
AtomicBodies ==
    {<< >>}
    \cup {<<KeyedIn(k)>> : k \in Keys \ {NoKey}}
    \cup {<<KeyedIn(j), KeyedIn(k)>> : j \in Keys, k \in Keys \ {NoKey}}

AcceptedAtomicBodies == Accepted(AtomicBodies)

RefusedAtomicBodies == Refused(AtomicBodies)

\* the query of SpecAtomic: no filter, the first page
AtomicQuery ==
    [type |-> NoFilter, bucket |-> NoFilter, page |-> 1, per_page |-> MaxAtomicPerPage]

\* two callers; the SAVEPOINT block runs statement by statement, requests may
\* be abandoned and the history is read while commits are in flight
NextAtomic ==
    \/ \E p \in Products : create_item(p)
    \/ /\ nreq < MaxAtomicCalls
       /\ \E c \in Callers :
             FreeSlot(c) /\ \E p \in Products, body \in RefusedAtomicBodies :
                               reject_body(c, p, body)
    \/ /\ nreq < MaxAtomicCalls
       /\ \E c \in Callers :
             FreeSlot(c) /\ \E p \in Products, body \in AcceptedAtomicBodies :
                               create_transaction(c, p, body)
    \/ /\ nreq < MaxAtomicCalls
       /\ \E c \in Callers :
             FreeSlot(c) /\ \E p \in Products : list_transactions(c, p, AtomicQuery)
    \/ \E c \in Callers : list_rows(c)
    \/ \E c \in Callers : read_head(c)
    \/ \E c \in Callers : project_and_check(c)
    \/ \E c \in Callers : update_stock_head(c)
    \/ \E c \in Callers : flush_row(c)
    \/ \E c \in Callers : commit(c)
    \/ \E c \in Callers : abandon(c)
    \/ \E c \in Callers : respond(c)

SpecAtomic == Init /\ [][NextAtomic]_vars

(* ------------------------- dashboard queries --------------------------- *)

\* the products of SpecDashboard and their codes, in ascending order
DashProductSeq == ProductSeq \o <<"p3">>

DashProducts == {DashProductSeq[i] : i \in 1..Len(DashProductSeq)}

DashCodeSeq == CodeSeq \o <<"k3">>

\* Item.name as its whitespace-separated tokens, one name per category
DashNameSeq == <<<<"A", "x">>, <<"B", "x">>, <<"C", "x">>>>

\* categories are interchangeable: a new product takes the name of a category
\* in use or of the first one not in use
DashNames ==
    {DashNameSeq[i] : i \in {j \in 1..Len(DashNameSeq) :
        \A k \in 1..(j - 1) :
            \E p \in DOMAIN items : items[p].exists /\ items[p].name = DashNameSeq[k]}}

\* ItemCreate.unit_price: Field(..., ge=0)
PriceMin == 0

\* _extract_category: the first token of the name
extract_category(name) == name[1]

\* the Item row of a new product with its name and unit_price
NewPricedItem(code, name, unit_price) ==
    [exists |-> TRUE, code |-> code, name |-> name, unit_price |-> unit_price,
     active |-> TRUE, version |-> ItemInitVersion]

\* Item.code ascending: is code a before code b
CodeBefore(a, b) ==
    \E i, j \in 1..Len(DashCodeSeq) :
        DashCodeSeq[i] = a /\ DashCodeSeq[j] = b /\ i < j

\* no condition on reason in a CASE of the breakdown
AnyReason == "*"

RECURSIVE SumCase(_, _, _)
\* SUM(CASE WHEN bucket = :bucket [AND reason = :reason] THEN qty_delta
\* ELSE 0 END) over the rows of a group
SumCase(group, bucket, reason) ==
    IF group = << >> THEN 0
    ELSE LET r == Head(group)
         IN (IF r.bucket = bucket /\ (reason = AnyReason \/ r.reason = reason)
             THEN r.qty_delta ELSE 0)
            + SumCase(Tail(group), bucket, reason)

\* the breakdown with the groups of all items summed into each row
Breakdown_ungrouped(rows, item_id, bucket, reason) == SumCase(rows, bucket, reason)

\* a column of _stock_breakdown_subquery after the outer join with items:
\* coalesce(sq.c.column, 0), an item without entries having no row in sq
Breakdown(rows, item_id, bucket, reason) ==
    LET group == SelectSeq(rows, LAMBDA r : r.item_id = item_id)
    IN IF group = << >> THEN 0 ELSE SumCase(group, bucket, reason)

\* the row of product p in the outer join of items with
\* _stock_breakdown_subquery, sums coalesced to 0
StockRow(p) ==
    [product_id |-> p, code |-> items[p].code, name |-> items[p].name,
     unit_price |-> items[p].unit_price,
     on_hand |-> Breakdown(inventory_tx, p, "ON_HAND", AnyReason),
     reserved_total |-> Breakdown(inventory_tx, p, "RESERVED", AnyReason)]

\* every product selected, whatever the flag
SelectedRows_withInactive(include_inactive) ==
    {StockRow(p) : p \in {q \in DOMAIN items : items[q].exists}}

\* the rows of the join: of active products unless include_inactive
SelectedRows(include_inactive) ==
    {StockRow(p) : p \in {q \in DOMAIN items :
                            items[q].exists /\ (include_inactive \/ items[q].active)}}

\* .order_by(key.desc(), Item.code), key giving each row its sort value
OrderByDesc(rows, key) ==
    [i \in 1..Cardinality(rows) |->
        CHOOSE r \in rows :
            Cardinality({x \in rows : \/ key[x] > key[r]
                                      \/ key[x] = key[r] /\ CodeBefore(x.code, r.code)})
                = i - 1]

RECURSIVE SumSeq(_)
\* the sum of a sequence of numbers
SumSeq(xs) == IF xs = << >> THEN 0 ELSE Head(xs) + SumSeq(Tail(xs))

\* rows[limit:]
RowsFrom(rows, limit) == SubSeq(rows, limit + 1, Len(rows))

\* rows[:limit]
RowsUpTo(rows, limit) == SubSeq(rows, 1, IF limit < Len(rows) THEN limit ELSE Len(rows))

\* stock_value of _row_to_stock_item computed as on_hand + unit_price
stock_value_added(row) == row.on_hand + row.unit_price

\* _row_to_stock_item: d["stock_value"] = oh * row.unit_price
stock_value(row) == row.on_hand * row.unit_price

\* _row_to_stock_item without detail
row_to_stock_item(row) ==
    [product_id |-> row.product_id, code |-> row.code, on_hand |-> row.on_hand,
     reserved_total |-> row.reserved_total,
     available |-> row.on_hand - row.reserved_total]

\* the others total summed over every row
OthersOf_allRows(rows, limit) ==
    [on_hand |-> SumSeq([i \in 1..Len(rows) |-> rows[i].on_hand]),
     reserved_total |-> SumSeq([i \in 1..Len(rows) |-> rows[i].reserved_total]),
     available |-> SumSeq([i \in 1..Len(rows) |->
                              rows[i].on_hand - rows[i].reserved_total])]

\* query_stock_top, the loop over rows[limit:]
OthersOf(rows, limit) ==
    LET rest == RowsFrom(rows, limit)
    IN [on_hand |-> SumSeq([i \in 1..Len(rest) |-> rest[i].on_hand]),
        reserved_total |-> SumSeq([i \in 1..Len(rest) |-> rest[i].reserved_total]),
        available |-> SumSeq([i \in 1..Len(rest) |->
                                 rest[i].on_hand - rest[i].reserved_total])]

\* query_stock_top(db, limit, include_inactive): (top_items, others_total)
query_stock_top(limit, include_inactive) ==
    LET selected == SelectedRows(include_inactive)
        rows == OrderByDesc(selected, [r \in selected |-> r.on_hand])
        first == RowsUpTo(rows, limit)
    IN [top |-> [i \in 1..Len(first) |-> row_to_stock_item(first[i])],
        others |-> OthersOf(rows, limit)]

\* the top-N of metric=value: the rows ordered by stock_value descending,
\* each top item and the others total with its stock_value
query_stock_top_value(limit, include_inactive) ==
    LET selected == SelectedRows(include_inactive)
        rows == OrderByDesc(selected, [r \in selected |-> stock_value(r)])
        first == RowsUpTo(rows, limit)
        rest == RowsFrom(rows, limit)
    IN [top |-> [i \in 1..Len(first) |->
                    [product_id |-> first[i].product_id, code |-> first[i].code,
                     on_hand |-> first[i].on_hand,
                     reserved_total |-> first[i].reserved_total,
                     available |-> first[i].on_hand - first[i].reserved_total,
                     stock_value |-> stock_value(first[i])]],
        others |-> [on_hand |-> OthersOf(rows, limit).on_hand,
                    reserved_total |-> OthersOf(rows, limit).reserved_total,
                    available |-> OthersOf(rows, limit).available,
                    stock_value |-> SumSeq([i \in 1..Len(rest) |-> stock_value(rest[i])])]]

\* query_stock_by_category: the metrics of the pie chart
CategoryMetrics == {"value", "qty", "available", "reserved"}

\* the value of "qty" whatever the metric
MetricValue_qtyOnly(metric, r) == r.on_hand

\* query_stock_by_category: val of a row under the metric
MetricValue(metric, r) ==
    IF metric = "value" THEN r.on_hand * r.unit_price
    ELSE IF metric = "qty" THEN r.on_hand
    ELSE IF metric = "available" THEN r.on_hand - r.reserved_total
    ELSE r.reserved_total

RECURSIVE SumMetric(_, _)
\* the sum of the metric over a set of rows
SumMetric(metric, rows) ==
    IF rows = {} THEN 0
    ELSE LET r == CHOOSE x \in rows : TRUE
         IN MetricValue(metric, r) + SumMetric(metric, rows \ {r})

\* cat_map: category -> summed metric, over the rows of active products
CatMap(metric) ==
    LET rows == SelectedRows(FALSE)
    IN [k \in {extract_category(r.name) : r \in rows} |->
          SumMetric(metric, {r \in rows : extract_category(r.name) = k})]

\* sorted(cat_map.items(), key=value, reverse=True): the rows come from the
\* store in no given order, so categories of equal value come in any order
SortedCats(cat_map) ==
    LET n == Cardinality(DOMAIN cat_map)
    IN {[i \in 1..n |-> [key |-> f[i], metric_value |-> cat_map[f[i]]]] :
          f \in {g \in [1..n -> DOMAIN cat_map] :
                    /\ \A i, j \in 1..n : i # j => g[i] # g[j]
                    /\ \A i, j \in 1..n : i < j => cat_map[g[i]] >= cat_map[g[j]]}}

\* the OTHER row added when as many categories as limit are left over
OtherRow_atLimit(sorted_cats, limit) ==
    IF Len(sorted_cats) >= limit
    THEN <<[key |-> "OTHER",
            metric_value |-> SumSeq([i \in 1..Len(RowsFrom(sorted_cats, limit)) |->
                                       RowsFrom(sorted_cats, limit)[i].metric_value])]>>
    ELSE << >>

\* if len(sorted_cats) > limit: the OTHER row of sorted_cats[limit:]
OtherRow(sorted_cats, limit) ==
    IF Len(sorted_cats) > limit
    THEN <<[key |-> "OTHER",
            metric_value |-> SumSeq([i \in 1..Len(RowsFrom(sorted_cats, limit)) |->
                                       RowsFrom(sorted_cats, limit)[i].metric_value])]>>
    ELSE << >>

\* query_stock_by_category(db, metric, limit): the answers it may give,
\* {total, breakdown}
query_stock_by_category(metric, limit) ==
    {[total |-> SumSeq([i \in 1..Len(sorted_cats) |-> sorted_cats[i].metric_value]),
      breakdown |-> RowsUpTo(sorted_cats, limit) \o OtherRow(sorted_cats, limit)] :
        sorted_cats \in SortedCats(CatMap(metric))}

\* the store of SpecDashboard: no product, no entry
InitDashboard ==
    /\ items = [p \in DashProducts |->
                  [exists |-> FALSE, code |-> NoCode, name |-> << >>, unit_price |-> 0,
                   active |-> FALSE, version |-> 0]]
    /\ stock_heads = [p \in DashProducts |-> [exists |-> FALSE, version |-> 0]]
    /\ inventory_tx = << >>
    /\ wlock = "None"
    /\ tx = NoTx
    /\ pc = [c \in Callers |-> "idle"]
    /\ local = [c \in Callers |-> NoLocal]
    /\ nreq = 0
    /\ wins = {}

(* POST /api/v1/products served whole: the next product is created with    *)
(* its name and unit_price and its StockHead                               *)
create_priced_item(p, name, unit_price) ==
    /\ \E i \in 1..Len(DashProductSeq) :
          /\ DashProductSeq[i] = p
          /\ ~items[p].exists
          /\ \A j \in 1..(i - 1) : items[DashProductSeq[j]].exists
          /\ items' = [items EXCEPT ![p] = NewPricedItem(DashCodeSeq[i], name, unit_price)]
    /\ stock_heads' = [stock_heads EXCEPT ![p] = NewStockHead]
    /\ UNCHANGED <<inventory_tx, wlock, tx, pc, local, nreq, wins>>

(* POST .../transactions served whole, when it succeeds                    *)
serve_transaction(p, body) ==
    /\ nreq < MaxDashEntries
    /\ LET o == post_transactions(inventory_tx, stock_heads[p].version, items[p], p,
                                  body, nreq + 1)
       IN /\ o.result = "OK"
          /\ inventory_tx' = o.rows
          /\ stock_heads' = [stock_heads EXCEPT ![p].version = o.version]
    /\ nreq' = nreq + 1
    /\ UNCHANGED <<items, wlock, tx, pc, local, wins>>

\* the deactivation deleting the entries of the product with it
serve_delete_item_purgesEntries(p) ==
    /\ items[p].exists
    /\ items[p].active
    /\ items' = [items EXCEPT ![p].active = FALSE, ![p].version = @ + 1]
    /\ inventory_tx' = SelectSeq(inventory_tx, LAMBDA r : r.item_id # p)
    /\ UNCHANGED <<stock_heads, wlock, tx, pc, local, nreq, wins>>

(* DELETE /api/v1/products/{id} served whole                               *)
serve_delete_item(p) ==
    /\ items[p].exists
    /\ items[p].active
    /\ items' = [items EXCEPT ![p].active = FALSE, ![p].version = @ + 1]
    /\ UNCHANGED <<stock_heads, inventory_tx, wlock, tx, pc, local, nreq, wins>>

(* GET /api/v1/dashboard/stock/top: stock_top hands metric, limit and      *)
(* include_inactive to query_stock_top                                     *)
stock_top(c, metric, limit, include_inactive) ==
    /\ FreeSlot(c)
    /\ LET o == IF metric = "value" THEN query_stock_top_value(limit, include_inactive)
                ELSE query_stock_top(limit, include_inactive)
       IN local' = [local EXCEPT ![c] =
            [NoLocal EXCEPT !.op = "top",
                            !.query = [metric |-> metric, limit |-> limit,
                                       include_inactive |-> include_inactive],
                            !.data = o.top, !.others = o.others, !.result = "OK"]]
    /\ pc' = [pc EXCEPT ![c] = "done"]
    /\ UNCHANGED <<items, stock_heads, inventory_tx, wlock, tx, nreq, wins>>

(* the category pie chart: query_stock_by_category applied to the store    *)
stock_by_category(c, metric, limit) ==
    /\ FreeSlot(c)
    /\ \E o \in query_stock_by_category(metric, limit) :
          local' = [local EXCEPT ![c] =
            [NoLocal EXCEPT !.op = "by_category",
                            !.query = [metric |-> metric, limit |-> limit],
                            !.total = o.total, !.data = o.breakdown, !.result = "OK"]]
    /\ pc' = [pc EXCEPT ![c] = "done"]
    /\ UNCHANGED <<items, stock_heads, inventory_tx, wlock, tx, nreq, wins>>

\* stock_top: limit >= 1
LimitMin == 1

\* one caller reads the dashboard of a store that requests, each served
\* whole, fill with up to three products and MaxDashEntries entries
NextDashboard ==
    \/ \E p \in DashProducts, name \in DashNames, unit_price \in PriceMin..MaxPrice :
          create_priced_item(p, name, unit_price)
    \/ \E p \in DashProducts, t \in {"IN", "RESERVE"} :
          serve_transaction(p, <<PlainTx(t)>>)
    \/ \E p \in DashProducts : serve_delete_item(p)
    \/ \E metric \in {"qty", "value"}, limit \in LimitMin..MaxLimit,
          include_inactive \in BOOLEAN :
          stock_top(CallerSeq[1], metric, limit, include_inactive)
    \/ \E metric \in CategoryMetrics, limit \in LimitMin..MaxLimit :
          stock_by_category(CallerSeq[1], metric, limit)
    \/ respond(CallerSeq[1])

SpecDashboard == InitDashboard /\ [][NextDashboard]_vars

(* ------------------------- retry on CONFLICT --------------------------- *)

(* the caller of a request answered CONFLICT sends the same request again: *)
(* the Item is loaded and tested anew, and create_txs starts over           *)
retry(c) ==
    /\ pc[c] = "done"
    /\ local[c].op = "commit"
    /\ local[c].result = "CONFLICT"
    /\ LET again == [NoLocal EXCEPT !.op = "commit", !.item = local[c].item,
                                    !.req = local[c].req,
                                    !.tx_inputs = local[c].tx_inputs]
       IN IF ~items[local[c].item].exists
          THEN /\ pc' = [pc EXCEPT ![c] = "done"]
               /\ local' = [local EXCEPT ![c] =
                              [again EXCEPT !.result = "PRODUCT_NOT_FOUND"]]
          ELSE IF InactiveCheck(items[local[c].item])
          THEN /\ pc' = [pc EXCEPT ![c] = "done"]
               /\ local' = [local EXCEPT ![c] =
                              [again EXCEPT !.result = "PRODUCT_INACTIVE"]]
          ELSE /\ pc' = [pc EXCEPT ![c] = "read_head"]
               /\ local' = [local EXCEPT ![c] = again]
    /\ UNCHANGED <<items, stock_heads, inventory_tx, wlock, tx, nreq, wins>>

\* the steps of the request of caller c, its retries included
Handler(c) ==
    \/ read_head(c)
    \/ project_and_check(c)
    \/ write_batch(c)
    \/ commit(c)
    \/ retry(c)

\* two callers whose requests are sent again until the answer is not CONFLICT
NextRetry ==
    \/ \E p \in Products : create_item(p)
    \/ /\ nreq < MaxRetryCalls
       /\ \E c \in Callers :
             FreeSlot(c) /\ \E p \in Products, body \in {<<PlainTx("IN")>>, <<PlainTx("OUT")>>} :
                               create_transaction(c, p, body)
    \/ \E c \in Callers : read_head(c)
    \/ \E c \in Callers : project_and_check(c)
    \/ \E c \in Callers : write_batch(c)
    \/ \E c \in Callers : commit(c)
    \/ \E c \in Callers : retry(c)
    \/ \E c \in Callers : local[c].result # "CONFLICT" /\ respond(c)

\* every handler runs to its end and every CONFLICT is retried
SpecRetry ==
    /\ Init
    /\ [][NextRetry]_vars
    /\ \A c \in Callers : WF_vars(Handler(c))

(* --------------------------- startup backfill -------------------------- *)

\* stock_heads holds one row per product: an INSERT for a product that has its
\* row conflicts on item_id
StockHeadConflict(heads, p) == heads[p].exists

\* SELECT id, 0, updated_at FROM items: the version of an inserted row
BackfillVersion == 0

\* INSERT OR REPLACE: the row of every item written anew
Backfilled_replacing(its, heads) ==
    [p \in DOMAIN heads |->
        IF its[p].exists THEN [exists |-> TRUE, version |-> BackfillVersion]
        ELSE heads[p]]

\* INSERT OR IGNORE INTO stock_heads (item_id, version, updated_at)
\* SELECT id, 0, updated_at FROM items: the table after the statement
Backfilled(its, heads) ==
    [p \in DOMAIN heads |->
        IF its[p].exists /\ ~StockHeadConflict(heads, p)
        THEN [exists |-> TRUE, version |-> BackfillVersion]
        ELSE heads[p]]

(* an Item written before the stock_heads table existed: the product has   *)
(* its row in items and none in stock_heads                                *)
legacy_item(p) ==
    /\ NextProduct(p)
    /\ wlock = "None"
    /\ items' = [items EXCEPT ![p] =
                    NewItem(CodeSeq[CHOOSE i \in 1..Len(ProductSeq) : ProductSeq[i] = p])]
    /\ UNCHANGED <<stock_heads, inventory_tx, wlock, tx, pc, local, nreq, wins>>

(* the start of a server process: "Backfill stock_heads for items created  *)
(* before the table existed", one statement in a transaction of its own    *)
backfill ==
    /\ wlock = "None"
    /\ stock_heads' = Backfilled(items, stock_heads)
    /\ UNCHANGED <<items, inventory_tx, wlock, tx, pc, local, nreq, wins>>

\* products created with and without their StockHead, server processes
\* starting, and two callers committing
NextBackfill ==
    \/ \E p \in Products : create_item(p)
    \/ \E p \in Products : legacy_item(p)
    \/ backfill
    \/ /\ nreq < MaxBackfillCalls
       /\ \E c \in Callers :
             FreeSlot(c) /\ \E p \in Products, body \in {<<PlainTx("IN")>>} :
                               create_transaction(c, p, body)
    \/ \E c \in Callers : read_head(c)
    \/ \E c \in Callers : project_and_check(c)
    \/ \E c \in Callers : write_batch(c)
    \/ \E c \in Callers : commit(c)
    \/ \E c \in Callers : respond(c)

SpecBackfill == Init /\ [][NextBackfill]_vars

(* ----------------------------- stock list ------------------------------ *)

\* the reasons the breakdown filters on
ReturnPending == "RETURN_PENDING"

OrderPendingShipment == "ORDER_PENDING_SHIPMENT"

\* the bodies of SpecStock: an IN, and a RESERVE or an UNRESERVE with each reason
StockBodies ==
    {<<PlainTx("IN")>>}
    \cup {<<[PlainTx(t) EXCEPT !.reason = r]>> :
             t \in {"RESERVE", "UNRESERVE"},
             r \in {NoReason, ReturnPending, OrderPendingShipment}}

\* the row of product p in the outer join of query_stock_list: the columns of
\* the item and the sums of _stock_breakdown_subquery coalesced to 0
StockListRow(p) ==
    [product_id |-> p, code |-> items[p].code, name |-> items[p].name,
     unit_price |-> items[p].unit_price,
     on_hand |-> Breakdown(inventory_tx, p, "ON_HAND", AnyReason),
     reserved_total |-> Breakdown(inventory_tx, p, "RESERVED", AnyReason),
     reserved_pending_return |-> Breakdown(inventory_tx, p, "RESERVED", ReturnPending),
     reserved_pending_order |->
         Breakdown(inventory_tx, p, "RESERVED", OrderPendingShipment)]

\* the products query_stock_list selects: the active ones unless include_inactive
SelectedItems(include_inactive) ==
    {q \in DOMAIN items : items[q].exists /\ (include_inactive \/ items[q].active)}

\* _row_to_stock_item with available = on_hand + reserved_total
row_to_stock_list_item_availableSum(row) ==
    [product_id |-> row.product_id, code |-> row.code, on_hand |-> row.on_hand,
     reserved_total |-> row.reserved_total,
     reserved_pending_return |-> row.reserved_pending_return,
     reserved_pending_order |-> row.reserved_pending_order,
     available |-> row.on_hand + row.reserved_total,
     stock_value |-> stock_value(row)]

\* _row_to_stock_item(r, include_detail=True)
row_to_stock_list_item(row) ==
    [product_id |-> row.product_id, code |-> row.code, on_hand |-> row.on_hand,
     reserved_total |-> row.reserved_total,
     reserved_pending_return |-> row.reserved_pending_return,
     reserved_pending_order |-> row.reserved_pending_order,
     available |-> row.on_hand - row.reserved_total,
     stock_value |-> stock_value(row)]

\* sort_map: the value a row is ordered by, descending
SortKey(sort, row) ==
    IF sort = "qty_desc" THEN row.on_hand
    ELSE IF sort = "qty_asc" THEN 0 - row.on_hand
    ELSE IF sort = "value_desc" THEN stock_value(row)
    ELSE 0 - stock_value(row)

\* query_stock_list(db, sort, page, per_page, include_inactive) without a
\* search text: (items, total_count)
query_stock_list(sort, page, per_page, include_inactive) ==
    LET selected == {StockListRow(q) : q \in SelectedItems(include_inactive)}
        rows == OrderByDesc(selected, [r \in selected |-> SortKey(sort, r)])
        data == OffsetLimit(rows, (page - 1) * per_page, per_page)
    IN [items |-> [i \in 1..Len(data) |-> row_to_stock_list_item(data[i])],
        total |-> Cardinality(SelectedItems(include_inactive))]

(* GET /api/v1/stock: list_stock hands its parameters to query_stock_list   *)
list_stock(c, sort, page, per_page, include_inactive) ==
    /\ FreeSlot(c)
    /\ LET o == query_stock_list(sort, page, per_page, include_inactive)
       IN local' = [local EXCEPT ![c] =
            [NoLocal EXCEPT !.op = "stock_list",
                            !.query = [sort |-> sort, page |-> page,
                                       per_page |-> per_page,
                                       include_inactive |-> include_inactive],
                            !.total = o.total, !.data = o.items, !.result = "OK"]]
    /\ pc' = [pc EXCEPT ![c] = "done"]
    /\ UNCHANGED <<items, stock_heads, inventory_tx, wlock, tx, nreq, wins>>

\* two products, transactions with the filtered reasons, deactivation, and
\* the stock list and the top-N read by one caller
NextStock ==
    \/ \E p \in Products, unit_price \in PriceMin..MaxPrice :
          create_priced_item(p, DashNameSeq[1], unit_price)
    \/ \E p \in Products, body \in StockBodies : serve_transaction(p, body)
    \/ \E p \in Products : serve_delete_item(p)
    \/ \E sort \in {"qty_desc", "qty_asc", "value_desc", "value_asc"}, page \in PageMin..MaxStockPage,
          per_page \in PerPageMin..MaxStockPerPage, include_inactive \in BOOLEAN :
          list_stock(CallerSeq[1], sort, page, per_page, include_inactive)
    \/ \E limit \in LimitMin..MaxLimit, include_inactive \in BOOLEAN :
          stock_top(CallerSeq[1], "qty", limit, include_inactive)
    \/ respond(CallerSeq[1])

SpecStock == InitDashboard /\ [][NextStock]_vars

(* ------------------------------ claims --------------------------------- *)

RECURSIVE DeltaSum(_, _, _, _)
\* the sum of the deltas of the entries 1..n of rows for product p in bucket b
DeltaSum(rows, n, p, b) ==
    IF n = 0 THEN 0
    ELSE DeltaSum(rows, n - 1, p, b)
         + (IF rows[n].item_id = p /\ rows[n].bucket = b THEN rows[n].qty_delta ELSE 0)

\* on_hand and reserved of product p over the committed entries
OnHand(p) == DeltaSum(inventory_tx, Len(inventory_tx), p, "ON_HAND")

Reserved(p) == DeltaSum(inventory_tx, Len(inventory_tx), p, "RESERVED")

\* on_hand and reserved of product p once the entries of a handler's batch
\* are added to the committed ones
NetOnHand(loc) ==
    OnHand(loc.item)
    + DeltaSum(NewRows(loc.item, loc.tx_inputs, loc.req), Len(loc.tx_inputs),
               loc.item, "ON_HAND")

NetReserved(loc) ==
    Reserved(loc.item)
    + DeltaSum(NewRows(loc.item, loc.tx_inputs, loc.req), Len(loc.tx_inputs),
               loc.item, "RESERVED")

\* caller c has finished a transactions request
DoneCommit(c) == pc[c] = "done" /\ local[c].op = "commit"

\* C1: in every committed state, under every interleaving of commit calls of
\* concurrent callers, every product has on_hand >= 0, reserved >= 0 and
\* on_hand - reserved >= 0, the sums being over the committed entries' deltas.
C1_StockNeverNegative ==
    \A p \in Products :
        /\ OnHand(p) >= 0
        /\ Reserved(p) >= 0
        /\ OnHand(p) - Reserved(p) >= 0

\* C1 witness: two commits raced on a product for its last unit; one took it,
\* the other, an OUT that would drive on_hand negative, lost with CONFLICT.
C1_Witness ==
    \E c \in Callers :
        /\ DoneCommit(c)
        /\ local[c].result = "CONFLICT"
        /\ local[c].tx_inputs[1].type = "OUT"
        /\ OnHand(local[c].item) = 0
        /\ \E w \in wins : w.item = local[c].item /\ w.expected_version = 1

ErrorKinds ==
    {"PRODUCT_INACTIVE", "INSUFFICIENT_ON_HAND", "INSUFFICIENT_RESERVED",
     "INSUFFICIENT_AVAILABLE", "CONFLICT", "DUPLICATE_REQUEST_ID"}

\* caller c takes the step that ends its transactions request with error kind k
FailsWith(c, k) ==
    /\ pc[c] # "done"
    /\ pc'[c] = "done"
    /\ local'[c].op = "commit"
    /\ local'[c].result = k

\* C2: a commit call that fails with any error kind (PRODUCT_INACTIVE,
\* INSUFFICIENT_ON_HAND, INSUFFICIENT_RESERVED, INSUFFICIENT_AVAILABLE, CONFLICT,
\* DUPLICATE_REQUEST_ID) leaves the committed ledger and every StockHead.version
\* as they were: the failing step changes neither, and no entry of a failed
\* batch is ever in the ledger.
C2_FailedCommitChangesNothing ==
    /\ [](\A c \in Callers :
            DoneCommit(c) /\ local[c].result \in ErrorKinds =>
                \A i \in 1..Len(inventory_tx) : inventory_tx[i].id[1] # local[c].req)
    /\ [][\A c \in Callers, k \in ErrorKinds :
            FailsWith(c, k) =>
                inventory_tx' = inventory_tx /\ stock_heads' = stock_heads]_vars

\* C2 witness: one call has failed with DUPLICATE_REQUEST_ID, after its version
\* bump had matched, and another with CONFLICT; the version of the first one's
\* product is still the one it read.
C2_Witness ==
    \E c, d \in Callers :
        /\ DoneCommit(c) /\ local[c].result = "DUPLICATE_REQUEST_ID"
        /\ DoneCommit(d) /\ local[d].result = "CONFLICT"
        /\ stock_heads[local[c].item].version = local[c].expected_version

\* C3: of the commit calls on one product that read the same expected_version
\* at most one succeeds; any other one that reaches the conditional version
\* update returns CONFLICT and persists nothing.
C3_OneWinnerPerVersion ==
    /\ [](\A w1, w2 \in wins :
            w1.item = w2.item /\ w1.expected_version = w2.expected_version
                => w1.req = w2.req)
    /\ [][\A c \in Callers :
            ( /\ pc[c] = "write"
              /\ pc'[c] # "write"
              /\ \E w \in wins : /\ w.item = local[c].item
                                 /\ w.expected_version = local[c].expected_version )
            => /\ FailsWith(c, "CONFLICT")
               /\ inventory_tx' = inventory_tx
               /\ stock_heads' = stock_heads]_vars

\* C3 witness: a call lost with CONFLICT to another call that had read the same
\* version of the same product.
C3_Witness ==
    \E c \in Callers :
        /\ DoneCommit(c)
        /\ local[c].result = "CONFLICT"
        /\ \E w \in wins : /\ w.item = local[c].item
                           /\ w.expected_version = local[c].expected_version
                           /\ w.req # local[c].req

\* the entries of product p among rows
EntriesOf(rows, p) == SelectSeq(rows, LAMBDA r : r.item_id = p)

\* C5: once delete_item has deactivated a product, no commit appends a ledger
\* entry to it or advances its StockHead.version, a commit that had read the
\* product as active before the deactivation included.
C5_NoCommitOnInactive ==
    [][\A p \in Products :
        items[p].exists /\ ~items[p].active =>
            /\ EntriesOf(inventory_tx', p) = EntriesOf(inventory_tx, p)
            /\ stock_heads'[p] = stock_heads[p]]_vars

\* caller c takes the step that ends its transactions request with success
Succeeds(c) ==
    /\ pc[c] # "done"
    /\ pc'[c] = "done"
    /\ local'[c].op = "commit"
    /\ local'[c].result = "OK"

\* C4: each successful commit call increases the product's StockHead.version by
\* exactly 1, whatever the number of intents of its batch, and nothing else
\* changes the version of an existing StockHead.
C4_VersionBumpsByOne ==
    [][\A p \in Products :
        stock_heads[p].exists =>
            /\ \A c \in Callers :
                 Succeeds(c) /\ local'[c].item = p =>
                    stock_heads'[p].version = stock_heads[p].version + 1
            /\ stock_heads'[p] # stock_heads[p] =>
                 \E c \in Callers : Succeeds(c) /\ local'[c].item = p]_vars

\* C4 witness: a batch of two intents has succeeded on a fresh product, whose
\* version is 1 with two entries in the ledger.
C4_Witness ==
    \E c \in Callers :
        /\ DoneCommit(c)
        /\ local[c].result = "OK"
        /\ Len(local[c].tx_inputs) = 2
        /\ stock_heads[local[c].item].version = 1
        /\ Len(EntriesOf(inventory_tx, local[c].item)) = 2

\* C6: in every reachable state a request_id backs at most one committed
\* entry, across all products and batches; entries without request_id are not
\* constrained (a batch without any request_id is never refused as duplicate).
C6_KeyBacksOneEntry ==
    /\ \A i, j \in 1..Len(inventory_tx) :
         i # j /\ inventory_tx[i].request_id # NoKey =>
            inventory_tx[i].request_id # inventory_tx[j].request_id
    /\ \A c \in Callers :
         DoneCommit(c) /\ local[c].result = "DUPLICATE_REQUEST_ID" =>
            \E i \in 1..Len(local[c].tx_inputs) :
                local[c].tx_inputs[i].request_id # NoKey

\* C6 witness: a commit on one product was refused because its request_id is
\* carried by a committed entry of another product.
C6_Witness ==
    \E c \in Callers :
        /\ DoneCommit(c)
        /\ local[c].result = "DUPLICATE_REQUEST_ID"
        /\ \E i \in 1..Len(inventory_tx), j \in 1..Len(local[c].tx_inputs) :
              /\ inventory_tx[i].request_id = local[c].tx_inputs[j].request_id
              /\ inventory_tx[i].request_id # NoKey
              /\ inventory_tx[i].item_id # local[c].item

\* the batch of handler loc carries a request_id that a committed entry of
\* another request carries
KeyTaken(rows, loc) ==
    \E i \in 1..Len(rows), j \in 1..Len(loc.tx_inputs) :
        /\ rows[i].request_id # NoKey
        /\ rows[i].request_id = loc.tx_inputs[j].request_id
        /\ rows[i].id[1] # loc.req

C8_NetEffectOnly ==
    [][\A c \in Callers :
        pc[c] = "calc_stock" /\ pc'[c] # "calc_stock" =>
            ( pc'[c] = "write" <=>
                /\ NetOnHand(local[c]) >= 0
                /\ NetReserved(local[c]) >= 0
                /\ NetOnHand(local[c]) - NetReserved(local[c]) >= 0 )]_vars

\* C8 witness: with available = 0, the batch OUT n, UNRESERVE n has succeeded
\* (available is 0 again), although its OUT alone drives available negative.
C8_Witness ==
    \E c \in Callers :
        /\ DoneCommit(c)
        /\ local[c].result = "OK"
        /\ Len(local[c].tx_inputs) = 2
        /\ local[c].tx_inputs[1].type = "OUT"
        /\ local[c].tx_inputs[2].type = "UNRESERVE"
        /\ OnHand(local[c].item) - Reserved(local[c].item) = 0

InsufficientKinds ==
    {"INSUFFICIENT_ON_HAND", "INSUFFICIENT_RESERVED", "INSUFFICIENT_AVAILABLE"}

\* C9: when the net post-batch state violates an invariant, commit reports the
\* first violated one in the order new_on_hand < 0 (INSUFFICIENT_ON_HAND),
\* new_reserved < 0 (INSUFFICIENT_RESERVED), new_available < 0
\* (INSUFFICIENT_AVAILABLE).
C9_FirstViolationReported ==
    \A c \in Callers :
        DoneCommit(c) /\ local[c].result \in InsufficientKinds =>
            local[c].result =
                IF NetOnHand(local[c]) < 0 THEN "INSUFFICIENT_ON_HAND"
                ELSE IF NetReserved(local[c]) < 0 THEN "INSUFFICIENT_RESERVED"
                ELSE "INSUFFICIENT_AVAILABLE"

\* C9 witness: a batch whose net effect makes both on_hand and reserved
\* negative was refused with INSUFFICIENT_ON_HAND.
C9_Witness ==
    \E c \in Callers :
        /\ DoneCommit(c)
        /\ local[c].result = "INSUFFICIENT_ON_HAND"
        /\ NetOnHand(local[c]) < 0
        /\ NetReserved(local[c]) < 0

\* caller c has finished a transactions request on a deactivated product
DoneOnInactive(c) ==
    /\ DoneCommit(c)
    /\ items[local[c].item].exists
    /\ ~items[local[c].item].active

\* C10 as stated: a commit against an inactive product fails with
\* PRODUCT_INACTIVE whatever its intents are, before any validation of them.
C10_InactiveBeforeValidation ==
    \A c \in Callers : DoneOnInactive(c) => local[c].result = "PRODUCT_INACTIVE"

\* C10 amended: a request whose body validation refuses fails with
\* VALIDATION_ERROR also on an inactive product; a commit with valid intents
\* against an inactive product fails with PRODUCT_INACTIVE whatever they are,
\* before any stock-level check.
C10_InactiveBeforeStockChecks ==
    \A c \in Callers :
        DoneOnInactive(c) =>
            local[c].result =
                IF local[c].tx_inputs = << >> THEN "VALIDATION_ERROR"
                ELSE "PRODUCT_INACTIVE"

\* C10 witness: a commit whose net effect would make on_hand negative was
\* refused with PRODUCT_INACTIVE on an inactive product.
C10_Witness ==
    \E c \in Callers :
        /\ DoneOnInactive(c)
        /\ local[c].result = "PRODUCT_INACTIVE"
        /\ NetOnHand(local[c]) < 0

\* the resolution of a valid intent as the mapping table states it
ResolveTable(t) ==
    CASE t.type = "IN" ->
            [type |-> "IN", bucket |-> "ON_HAND", qty_delta |-> t.qty]
      [] t.type = "OUT" ->
            [type |-> "OUT", bucket |-> "ON_HAND", qty_delta |-> 0 - t.qty]
      [] t.type = "RESERVE" ->
            [type |-> "RESERVE", bucket |-> "RESERVED", qty_delta |-> t.qty]
      [] t.type = "UNRESERVE" ->
            [type |-> "UNRESERVE", bucket |-> "RESERVED", qty_delta |-> 0 - t.qty]
      [] t.type = "ADJUST" /\ t.direction = "INCREASE" ->
            [type |-> "ADJUST", bucket |-> "ON_HAND", qty_delta |-> t.qty]
      [] t.type = "ADJUST" /\ t.direction = "DECREASE" ->
            [type |-> "ADJUST", bucket |-> "ON_HAND", qty_delta |-> 0 - t.qty]

\* C11: resolve maps every valid intent of quantity q >= 1 to IN -> (IN,
\* ON_HAND, +q), OUT -> (OUT, ON_HAND, -q), RESERVE -> (RESERVE, RESERVED, +q),
\* UNRESERVE -> (UNRESERVE, RESERVED, -q), ADJUST INCREASE -> (ADJUST, ON_HAND,
\* +q), ADJUST DECREASE -> (ADJUST, ON_HAND, -q), and the entries a commit
\* creates carry exactly these values.
C11_ResolveMapping ==
    \A c \in Callers :
        \A i \in 1..Len(local[c].tx_inputs) :
            /\ resolve_tx(local[c].tx_inputs[i]) = ResolveTable(local[c].tx_inputs[i])
            /\ DoneCommit(c) /\ local[c].result = "OK" =>
                 LET e == local[c].created[i]
                 IN [type |-> e.type, bucket |-> e.bucket, qty_delta |-> e.qty_delta]
                    = ResolveTable(local[c].tx_inputs[i])

\* C11 witness: a commit of IN 3, ADJUST DECREASE 2 has created an ADJUST
\* entry of delta -2 in ON_HAND.
C11_Witness ==
    \E c \in Callers :
        /\ DoneCommit(c)
        /\ local[c].result = "OK"
        /\ Len(local[c].tx_inputs) = 2
        /\ local[c].tx_inputs[2].type = "ADJUST"
        /\ local[c].tx_inputs[2].direction = "DECREASE"
        /\ local[c].tx_inputs[2].qty = 2
        /\ local[c].created[2].qty_delta = 0 - 2
        /\ local[c].created[2].bucket = "ON_HAND"

\* a request body holds an intent that is not valid: unknown type, direction
\* given for IN/OUT/RESERVE/UNRESERVE, direction missing for ADJUST, qty <= 0
InvalidIntent(t) ==
    \/ t.type \notin {"IN", "OUT", "ADJUST", "RESERVE", "UNRESERVE"}
    \/ t.type \in {"IN", "OUT", "RESERVE", "UNRESERVE"} /\ t.direction # NoDirection
    \/ t.type = "ADJUST" /\ t.direction = NoDirection
    \/ t.qty <= 0

HasInvalidIntent(body) == \E i \in 1..Len(body) : InvalidIntent(body[i])

\* C12: a commit whose intent list contains any invalid intent fails with
\* VALIDATION_ERROR before any projection or write, even when the other
\* intents of the batch are valid: no handler ever works on such a list, no
\* entry is appended and no version changes.
C12_InvalidIntentRefused ==
    /\ [](\A c \in Callers :
            /\ ~HasInvalidIntent(local[c].tx_inputs)
            /\ HasInvalidIntent(local[c].raw) =>
                 /\ pc[c] = "done"
                 /\ local[c].result = "VALIDATION_ERROR"
                 /\ \A i \in 1..Len(inventory_tx) : inventory_tx[i].id[1] # local[c].req)
    /\ [][\A c \in Callers :
            HasInvalidIntent(local'[c].raw) /\ local'[c] # local[c] =>
                inventory_tx' = inventory_tx /\ stock_heads' = stock_heads]_vars

\* C12 witness: on an active product that holds a committed entry, a batch of
\* a valid intent followed by an invalid one was refused with
\* VALIDATION_ERROR.
C12_Witness ==
    \E c \in Callers :
        /\ DoneCommit(c)
        /\ local[c].result = "VALIDATION_ERROR"
        /\ Len(local[c].raw) = 2
        /\ ~InvalidIntent(local[c].raw[1])
        /\ InvalidIntent(local[c].raw[2])
        /\ items[local[c].item].active
        /\ stock_heads[local[c].item].version = 1
        /\ Len(EntriesOf(inventory_tx, local[c].item)) = 1

\* C13: a successful commit of n intents appends exactly n ledger entries to
\* the product, one per intent, and returns them in submission order; the i-th
\* entry carries the resolved type, bucket and signed delta of the i-th intent
\* together with that intent's reason and idempotency key.
C13_OneEntryPerIntent ==
    [][\A c \in Callers :
        Succeeds(c) =>
            LET n == Len(local[c].tx_inputs)
                p == local[c].item
                old == Len(inventory_tx)
            IN /\ Len(inventory_tx') = old + n
               /\ SubSeq(inventory_tx', 1, old) = inventory_tx
               /\ Len(EntriesOf(inventory_tx', p)) = Len(EntriesOf(inventory_tx, p)) + n
               /\ Len(local'[c].created) = n
               /\ \A i \in 1..n :
                    LET e == inventory_tx'[old + i]
                        t == local[c].tx_inputs[i]
                    IN /\ local'[c].created[i] = e
                       /\ e.item_id = p
                       /\ e.type = resolve_tx(t).type
                       /\ e.bucket = resolve_tx(t).bucket
                       /\ e.qty_delta = resolve_tx(t).qty_delta
                       /\ e.reason = t.reason
                       /\ e.request_id = t.request_id]_vars

\* C13 witness: on a product that already held an entry, a batch IN with a
\* reason, OUT with a key has succeeded; the product holds three entries and
\* the two returned ones are the IN with the reason, then the OUT with the key.
C13_Witness ==
    \E c \in Callers :
        /\ DoneCommit(c)
        /\ local[c].result = "OK"
        /\ Len(EntriesOf(inventory_tx, local[c].item)) = 3
        /\ Len(local[c].created) = 2
        /\ local[c].created[1].type = "IN"
        /\ local[c].created[1].reason = "note"
        /\ local[c].created[1].request_id = NoKey
        /\ local[c].created[2].type = "OUT"
        /\ local[c].created[2].reason = NoReason
        /\ local[c].created[2].request_id = "r1"

\* C14: on success, the StockLevel commit returns (the pre-commit projection
\* plus the batch's net deltas, not re-read) equals the projection of the
\* committed ledger right after that commit, under every interleaving with
\* other commits.
C14_ReturnedStockIsCommittedStock ==
    [][\A c \in Callers :
        Succeeds(c) =>
            LET p == local[c].item
                rows == inventory_tx'
            IN /\ local'[c].new_stock.on_hand = DeltaSum(rows, Len(rows), p, "ON_HAND")
               /\ local'[c].new_stock.reserved = DeltaSum(rows, Len(rows), p, "RESERVED")
               /\ local'[c].new_stock.available =
                    DeltaSum(rows, Len(rows), p, "ON_HAND")
                    - DeltaSum(rows, Len(rows), p, "RESERVED")]_vars

\* C14 witness: two commits on one product were in flight together; the one
\* that lost with CONFLICT is finished, and a later commit on the product has
\* returned on_hand 2, the stock of the ledger after it.
C14_Witness ==
    \E c, d \in Callers :
        /\ c # d
        /\ DoneCommit(c)
        /\ local[c].result = "OK"
        /\ local[c].expected_version = 1
        /\ local[c].new_stock.on_hand = 2
        /\ OnHand(local[c].item) = 2
        /\ DoneCommit(d)
        /\ local[d].item = local[c].item
        /\ local[d].result = "CONFLICT"

\* C15: for every ledger reachable by commits, calc_stock of a product returns
\* on_hand = the sum of the deltas of its committed ON_HAND entries, reserved =
\* the sum of the deltas of its committed RESERVED entries (0 for an empty
\* group) and available = on_hand - reserved; computing it changes no state.
C15_ProjectIsBucketSums ==
    /\ [](\A p \in Products :
            calc_stock(inventory_tx, p) =
                [on_hand |-> OnHand(p), reserved |-> Reserved(p),
                 available |-> OnHand(p) - Reserved(p)])
    /\ [][\A c \in Callers :
            pc[c] = "calc_stock" /\ pc'[c] # "calc_stock" =>
                /\ inventory_tx' = inventory_tx
                /\ stock_heads' = stock_heads
                /\ items' = items]_vars

\* C15 witness: a handler has projected a product whose ledger holds an
\* ON_HAND and a RESERVED entry (on_hand 1, reserved 1, available 0), while the
\* other product holds entries of its own or none.
C15_Witness ==
    \E c \in Callers :
        /\ pc[c] = "write"
        /\ OnHand(local[c].item) = 1
        /\ Reserved(local[c].item) = 1
        /\ calc_stock(inventory_tx, local[c].item).available = 0
        /\ Len(EntriesOf(inventory_tx, local[c].item)) = 2

\* committing A and then B on product p in the current state, each request
\* served on its own
ThenA(p, A) ==
    post_transactions(inventory_tx, stock_heads[p].version, items[p], p, A, nreq + 1)

ThenB(p, after_A, B) ==
    post_transactions(after_A.rows, after_A.version, items[p], p, B, nreq + 2)

\* committing the batch A \o B on product p in the current state
Together(p, A, B) ==
    post_transactions(inventory_tx, stock_heads[p].version, items[p], p, A \o B, nreq + 1)

\* C16 as stated: for any two intent lists A and B such that committing A then
\* B separately both succeed, committing the concatenated batch [A,B] from
\* the same starting state also succeeds and yields the same final StockLevel.
C16_ConcatenationCommits ==
    \A p \in Products, A \in AcceptedConcatBodies :
        LET oA == ThenA(p, A)
        IN oA.result = "OK" =>
            \A B \in AcceptedConcatBodies :
                LET oB == ThenB(p, oA, B)
                    oAB == Together(p, A, B)
                IN oB.result = "OK" =>
                     oAB.result = "OK" /\ oAB.stock = oB.stock

\* C16 amended: the same, provided the concatenated batch has at most 10
\* intents (a longer one is refused with VALIDATION_ERROR); the step-by-step
\* handler and the request served on its own agree on every successful commit.
C16_ConcatenationWithinBatchLimit ==
    /\ [](\A p \in Products, A \in AcceptedConcatBodies :
            LET oA == ThenA(p, A)
            IN oA.result = "OK" =>
                \A B \in AcceptedConcatBodies :
                    LET oB == ThenB(p, oA, B)
                        oAB == Together(p, A, B)
                    IN oB.result = "OK" /\ Len(A) + Len(B) <= 10 =>
                         /\ oAB.result = "OK"
                         /\ oAB.stock = oB.stock
                         /\ calc_stock(oAB.rows, p) = oB.stock)
    /\ [][\A c \in Callers :
            Succeeds(c) =>
                LET o == post_transactions(inventory_tx, stock_heads[local[c].item].version,
                                           items[local[c].item], local[c].item,
                                           local[c].tx_inputs, local[c].req)
                IN /\ o.result = "OK"
                   /\ o.rows = inventory_tx'
                   /\ o.version = stock_heads'[local[c].item].version
                   /\ o.stock = local'[c].new_stock]_vars

\* C16 witness: two requests have committed A = IN and then B = OUT, IN on a
\* product; the stock the second returns is the one the batch IN, OUT, IN
\* returns from the state before them.
C16_Witness ==
    \E c \in Callers, p \in Products :
        LET A == <<PlainTx("IN")>>
            B == <<PlainTx("OUT"), PlainTx("IN")>>
            start == post_transactions(<< >>, StockHeadInitVersion, items[p], p, A \o B, 1)
        IN /\ DoneCommit(c)
           /\ local[c].result = "OK"
           /\ local[c].item = p
           /\ local[c].tx_inputs = B
           /\ inventory_tx = NewRows(p, A, 1) \o NewRows(p, B, 2)
           /\ stock_heads[p].version = 2
           /\ start.result = "OK"
           /\ start.stock = local[c].new_stock

\* caller c takes the step that ends its create-product request with result k
CreateEnds(c, k) ==
    /\ pc[c] # "done"
    /\ pc'[c] = "done"
    /\ local'[c].op = "create"
    /\ local'[c].result = k

\* C17: every successfully created product has exactly one StockHead, created
\* in the same atomic unit as the product and initialised to version 0 with no
\* ledger entries; a product creation that fails (duplicate code) creates
\* neither the product nor a StockHead.
C17_StockHeadCreatedWithProduct ==
    /\ [](\A p \in Products : items[p].exists <=> stock_heads[p].exists)
    /\ [][\A p \in Products :
            ~items[p].exists /\ items'[p].exists =>
                /\ stock_heads'[p].exists
                /\ stock_heads'[p].version = 0
                /\ EntriesOf(inventory_tx', p) = << >>
                /\ \E c \in Callers : CreateEnds(c, "OK") /\ local'[c].item = p]_vars
    /\ [][\A c \in Callers :
            CreateEnds(c, "VALIDATION_ERROR") =>
                items' = items /\ stock_heads' = stock_heads]_vars

\* C17 witness: one product exists with its StockHead at version 0, and a
\* second creation with the same code was refused, leaving the other product
\* id without Item and without StockHead.
C17_Witness ==
    \E c \in Callers, p \in Products, q \in Products :
        /\ pc[c] = "done"
        /\ local[c].op = "create"
        /\ local[c].result = "VALIDATION_ERROR"
        /\ items[p].exists
        /\ items[p].code = local[c].code
        /\ stock_heads[p].exists
        /\ stock_heads[p].version = 0
        /\ ~items[q].exists
        /\ ~stock_heads[q].exists

\* caller c takes the step that ends its update or delete of a product with
\* success
ItemWritten(c) ==
    /\ pc[c] # "done"
    /\ pc'[c] = "done"
    /\ local'[c].op \in {"update", "delete"}
    /\ local'[c].result = "OK"

\* C18: the two optimistic-lock counters never interfere: update_item and
\* delete_item write Item.version and leave StockHead.version unchanged, commit
\* changes StockHead.version and leaves Item.version unchanged, in every
\* interleaving of product updates and commits.
C18_LocksIndependent ==
    [][\A p \in Products :
        items[p].exists =>
            /\ items'[p].version # items[p].version => stock_heads'[p] = stock_heads[p]
            /\ stock_heads'[p].version # stock_heads[p].version => items'[p] = items[p]
            /\ \A c \in Callers :
                 ItemWritten(c) /\ local'[c].item = p =>
                    /\ items'[p].version = local[c].item_version + 1
                    /\ stock_heads' = stock_heads
            /\ \A c \in Callers :
                 Succeeds(c) /\ local'[c].item = p =>
                    /\ stock_heads'[p].version = stock_heads[p].version + 1
                    /\ items' = items]_vars

\* C18 witness: an update and a commit of the same product were in flight
\* together and both succeeded: Item.version went 1 -> 2 and StockHead.version
\* 0 -> 1.
C18_Witness ==
    \E c, d \in Callers :
        /\ DoneCommit(c)
        /\ local[c].result = "OK"
        /\ pc[d] = "done"
        /\ local[d].op = "update"
        /\ local[d].result = "OK"
        /\ local[d].item = local[c].item
        /\ items[local[c].item].version = 2
        /\ stock_heads[local[c].item].version = 1

\* caller c takes a step of a transactions request
CommitStep(c) ==
    /\ local'[c].op = "commit"
    /\ pc'[c] # pc[c]

\* C19: commits on different products are independent: a commit on product A,
\* successful or failed, leaves product B's ledger entries, StockHead.version
\* and projected stock unchanged, and never makes a concurrent commit on B fail
\* with CONFLICT (a CONFLICT on B comes from a commit on B).
C19_ProductsIndependent ==
    /\ [][\A c \in Callers :
            CommitStep(c) =>
                \A B \in Products \ {local'[c].item} :
                    /\ EntriesOf(inventory_tx', B) = EntriesOf(inventory_tx, B)
                    /\ stock_heads'[B] = stock_heads[B]
                    /\ calc_stock(inventory_tx', B) = calc_stock(inventory_tx, B)]_vars
    /\ [][\A c \in Callers :
            FailsWith(c, "CONFLICT") =>
                \E w \in wins : /\ w.item = local[c].item
                                /\ w.expected_version = local[c].expected_version
                                /\ w.req # local[c].req]_vars

\* C19 witness: a commit on one product was submitted first and committed
\* second, after a commit on the other product that ran in between; both
\* succeeded from version 0.
C19_Witness ==
    \E c, d \in Callers :
        /\ DoneCommit(c)
        /\ DoneCommit(d)
        /\ local[c].result = "OK"
        /\ local[d].result = "OK"
        /\ local[c].item # local[d].item
        /\ local[c].expected_version = 0
        /\ local[d].expected_version = 0
        /\ local[c].req < local[d].req
        /\ Len(inventory_tx) = 2
        /\ inventory_tx[1].id[1] = local[d].req
        /\ inventory_tx[2].id[1] = local[c].req

\* C20: the ledger is append-only: a committed entry stays in the ledger at
\* its place with product, type, bucket, delta, reason and key unchanged; no
\* operation (PUT or DELETE on a transaction, product update, soft delete, a
\* later commit, a refused or rolled-back commit) updates or removes it.
C20_LedgerAppendOnly ==
    [][/\ Len(inventory_tx') >= Len(inventory_tx)
       /\ SubSeq(inventory_tx', 1, Len(inventory_tx)) = inventory_tx]_vars

\* C20 witness: a product with a committed entry was soft-deleted and a PUT or
\* DELETE on a transaction of it was answered, the entry still in the ledger.
C20_Witness ==
    \E c \in Callers, p \in Products :
        /\ pc[c] = "done"
        /\ local[c].op = "modify"
        /\ local[c].item = p
        /\ local[c].result = "METHOD_NOT_ALLOWED"
        /\ items[p].exists
        /\ ~items[p].active
        /\ EntriesOf(inventory_tx, p) # << >>

\* the number of committed entries that the request of caller c has written
CommittedOf(c) ==
    Len(SelectSeq(inventory_tx, LAMBDA r : r.id[1] = local[c].req))

\* C21: a projection or any other read that runs while a commit is in flight
\* never observes a partial batch: of each commit attempt it sees none of the
\* entries and the old version until the commit completes, and all of them and
\* the bumped version afterwards. The reads are the version read and the
\* projection of another commit and the count and the page of the history.
C21_NoPartialBatchVisible ==
    /\ [](\A c \in Callers :
            local[c].op = "commit" =>
                CommittedOf(c) = IF pc[c] = "done" /\ local[c].result = "OK"
                                 THEN Len(local[c].tx_inputs) ELSE 0)
    /\ [][\A d \in Callers :
            LET p == local[d].item
            IN /\ pc[d] = "read_head" /\ pc'[d] = "calc_stock" =>
                    local'[d].expected_version = stock_heads[p].version
               /\ pc[d] = "calc_stock" /\ pc'[d] = "write" =>
                    /\ local'[d].new_stock.on_hand = NetOnHand(local[d])
                    /\ local'[d].new_stock.reserved = NetReserved(local[d])
               /\ pc[d] = "list_rows" /\ pc'[d] = "done" =>
                    \A i \in 1..Len(local'[d].data) :
                        \E j \in 1..Len(inventory_tx) :
                            local'[d].data[i] = inventory_tx[j]]_vars
    /\ [][\A d \in Callers :
            pc'[d] = "list_rows" /\ pc[d] # "list_rows" =>
                local'[d].total = Len(EntriesOf(inventory_tx, local'[d].item))]_vars

\* C21 witness: while a commit holds the first entry of its batch of two
\* flushed behind the version bump, another caller has read the history of the
\* same product, which a commit had filled before: it has counted and received
\* the one committed entry.
C21_Witness ==
    \E c, d \in Callers :
        /\ pc[c] = "flush"
        /\ wlock = c
        /\ Len(tx.rows) = 1
        /\ Len(local[c].tx_inputs) = 2
        /\ pc[d] = "done"
        /\ local[d].op = "list"
        /\ local[d].item = local[c].item
        /\ local[d].req > local[c].req
        /\ local[d].result = "OK"
        /\ local[d].total = 1
        /\ Len(local[d].data) = 1
        /\ stock_heads[local[c].item].version = 1
        /\ tx.version = 2

\* C22: commit accepts only intent lists of size 1 to 10: an empty list and a
\* list of more than 10 intents are refused with VALIDATION_ERROR, append
\* nothing and do not advance StockHead.version; a list of one intent, which
\* is what a single-entry submission hands to create_txs, and a list of 10 go
\* the way of every batch and are not refused for their size.
C22_BatchSizeOneToTen ==
    /\ [](\A c \in Callers :
            DoneCommit(c) =>
                /\ local[c].result = "VALIDATION_ERROR" <=> local[c].tx_inputs = << >>
                /\ local[c].result = "VALIDATION_ERROR" =>
                      /\ Len(local[c].raw) < 1 \/ Len(local[c].raw) > 10
                      /\ CommittedOf(c) = 0
                /\ local[c].result # "VALIDATION_ERROR" =>
                      /\ Len(local[c].tx_inputs) >= 1
                      /\ Len(local[c].tx_inputs) <= 10
                /\ local[c].result = "OK" => CommittedOf(c) = Len(local[c].tx_inputs))
    /\ [][\A c \in Callers :
            FailsWith(c, "VALIDATION_ERROR") =>
                inventory_tx' = inventory_tx /\ stock_heads' = stock_heads]_vars
    /\ [][\A c \in Callers :
            Succeeds(c) =>
                stock_heads'[local[c].item].version
                    = stock_heads[local[c].item].version + 1]_vars

\* C22 witness: after a list of one intent and a list of 10 were committed on
\* a product, a list of 11 has been refused: the ledger holds the 11 entries
\* and the version is 2.
C22_Witness ==
    \E c \in Callers :
        /\ DoneCommit(c)
        /\ Len(local[c].raw) = 11
        /\ local[c].result = "VALIDATION_ERROR"
        /\ Len(EntriesOf(inventory_tx, local[c].item)) = 11
        /\ stock_heads[local[c].item].version = 2

\* the places in the committed ledger of the entries of product p that pass
\* the filters of query q
MatchingPlaces(p, q) ==
    {j \in 1..Len(inventory_tx) :
        /\ inventory_tx[j].item_id = p
        /\ q.type = NoFilter \/ inventory_tx[j].type = q.type
        /\ q.bucket = NoFilter \/ inventory_tx[j].bucket = q.bucket}

\* the places in the committed ledger of the rows of data
PlacesOf(data) ==
    {j \in 1..Len(inventory_tx) : \E i \in 1..Len(data) : data[i] = inventory_tx[j]}

\* the size of the page, per_page long, that starts after offset of n rows
PageSize(n, offset, per_page) ==
    IF n <= offset THEN 0
    ELSE IF n - offset < per_page THEN n - offset ELSE per_page

\* C23: list_transactions returns a product's entries newest first: on every
\* page the entries of a later successful commit precede those of an earlier
\* one, and the newest come on the first page; the total reported is the number
\* of the product's entries that pass the type and bucket filters, whatever the
\* page; only entries of the product asked for, passing the filters, come back.
C23_HistoryNewestFirst ==
    /\ [][\A d \in Callers :
            pc'[d] = "list_rows" /\ pc[d] # "list_rows" =>
                local'[d].total
                    = Cardinality(MatchingPlaces(local'[d].item, local'[d].query))]_vars
    /\ [][\A d \in Callers :
            pc[d] = "list_rows" /\ pc'[d] = "done" =>
                LET data == local'[d].data
                    q == local[d].query
                    all == MatchingPlaces(local[d].item, q)
                    got == PlacesOf(data)
                IN /\ got \subseteq all
                   /\ Cardinality(got) = Len(data)
                   /\ Len(data) = PageSize(Cardinality(all), (q.page - 1) * q.per_page,
                                           q.per_page)
                   /\ \A i, j \in 1..Len(data) :
                        i < j /\ data[i].id[1] # data[j].id[1] =>
                            \E m, n \in got : /\ inventory_tx[m] = data[i]
                                              /\ inventory_tx[n] = data[j]
                                              /\ m > n
                   /\ q.page = 1 =>
                        \A m \in got, n \in all \ got :
                            inventory_tx[m].id[1] # inventory_tx[n].id[1] => m > n]_vars

\* C23 witness: after two commits on a product, IN by one and IN, RESERVE by
\* the next, the first page of two of its unfiltered history has come back with
\* a total of 3: the two entries of the later commit, not the first IN.
C23_Witness ==
    \E d \in Callers :
        /\ pc[d] = "done"
        /\ local[d].op = "list"
        /\ local[d].result = "OK"
        /\ local[d].query = [type |-> NoFilter, bucket |-> NoFilter,
                             page |-> 1, per_page |-> 2]
        /\ local[d].total = 3
        /\ Len(local[d].data) = 2
        /\ Len(inventory_tx) = 3
        /\ inventory_tx[1].id[1] # inventory_tx[2].id[1]
        /\ PlacesOf(local[d].data) = {2, 3}

RECURSIVE FnSum(_)
\* the sum of the values of the function f
FnSum(f) ==
    IF DOMAIN f = {} THEN 0
    ELSE LET x == CHOOSE y \in DOMAIN f : TRUE
         IN f[x] + FnSum([y \in DOMAIN f \ {x} |-> f[y]])

\* the products a dashboard query selects: the active ones, or every one
Selected(include_inactive) ==
    {p \in DOMAIN items : items[p].exists /\ (include_inactive \/ items[p].active)}

\* the products of the top list
TopProducts(top) == {top[i].product_id : i \in 1..Len(top)}

\* caller d takes the step that answers a top-N query of the given metric
AnswersTop(d, metric) ==
    /\ pc[d] = "idle"
    /\ pc'[d] = "done"
    /\ local'[d].op = "top"
    /\ local'[d].query.metric = metric

\* the smaller of two numbers
Least(a, b) == IF a < b THEN a ELSE b

\* C24: query_stock_top partitions the selected products (the active ones
\* unless include_inactive) into the first limit products by on_hand descending
\* and a remainder: every selected product is counted once, in the top list or
\* in the others total, whose on_hand, reserved_total and available are the
\* sums over exactly the products not in the top list (zero when there is none).
C24_TopAndOthersPartition ==
    [][\A d \in Callers :
        AnswersTop(d, "qty") =>
            LET q == local'[d].query
                top == local'[d].data
                others == local'[d].others
                sel == Selected(q.include_inactive)
                rest == sel \ TopProducts(top)
            IN /\ TopProducts(top) \subseteq sel
               /\ Cardinality(TopProducts(top)) = Len(top)
               /\ Len(top) = Least(q.limit, Cardinality(sel))
               /\ \A i \in 1..Len(top) :
                    /\ top[i].on_hand = OnHand(top[i].product_id)
                    /\ top[i].reserved_total = Reserved(top[i].product_id)
                    /\ top[i].available = top[i].on_hand - top[i].reserved_total
                    /\ \A j \in 1..Len(top) : i < j => top[i].on_hand >= top[j].on_hand
                    /\ \A p \in rest : top[i].on_hand >= OnHand(p)
               /\ others.on_hand = FnSum([p \in rest |-> OnHand(p)])
               /\ others.reserved_total = FnSum([p \in rest |-> Reserved(p)])
               /\ others.available = FnSum([p \in rest |-> OnHand(p) - Reserved(p)])]_vars

\* C24 witness: of three active products holding one unit each, the top list
\* of limit 1 holds one and the others total the two remaining: on_hand 2,
\* reserved 0, available 2.
C24_Witness ==
    \E d \in Callers :
        /\ pc[d] = "done"
        /\ local[d].op = "top"
        /\ local[d].query = [metric |-> "qty", limit |-> 1, include_inactive |-> FALSE]
        /\ Len(local[d].data) = 1
        /\ local[d].data[1].on_hand = 1
        /\ local[d].others = [on_hand |-> 2, reserved_total |-> 0, available |-> 2]
        /\ Cardinality(Selected(FALSE)) = 3

\* on_hand x unit_price of product p over the committed entries
StockValue(p) == OnHand(p) * items[p].unit_price

ActiveCategories == {extract_category(items[p].name) : p \in Selected(FALSE)}

\* the metric of product p over the committed entries
MetricOf(metric, p) ==
    CASE metric = "value" -> StockValue(p)
      [] metric = "qty" -> OnHand(p)
      [] metric = "available" -> OnHand(p) - Reserved(p)
      [] metric = "reserved" -> Reserved(p)

\* the metric summed over the active products of category k
CategoryValue(metric, k) ==
    FnSum([p \in {x \in Selected(FALSE) : extract_category(items[x].name) = k} |->
              MetricOf(metric, p)])

KeyTwice(loc) ==
    \E i, j \in 1..Len(loc.tx_inputs) :
        /\ i < j
        /\ loc.tx_inputs[i].request_id # NoKey
        /\ loc.tx_inputs[i].request_id = loc.tx_inputs[j].request_id

\* C27: when the conditional version update of a commit has matched inside the
\* atomic unit and the insert of an entry then violates the uniqueness of
\* request_id, against a committed entry or an earlier entry of the batch, the
\* whole unit is rolled back: the bump and every entry flushed are undone, the
\* call returns DUPLICATE_REQUEST_ID, and a later commit finds the version and
\* the stock of before the call.
C27_DuplicateKeyRollsBackUnit ==
    /\ [][\A c \in Callers :
            pc[c] = "flush" /\ pc'[c] # "flush" /\ pc'[c] # "commit"
            /\ local'[c].result # "ABANDONED" =>
                /\ KeyTaken(inventory_tx, local[c]) \/ KeyTwice(local[c])
                /\ FailsWith(c, "DUPLICATE_REQUEST_ID")
                /\ tx.version = local[c].expected_version + 1
                /\ stock_heads' = stock_heads
                /\ stock_heads'[local[c].item].version = local[c].expected_version
                /\ inventory_tx' = inventory_tx
                /\ tx' = NoTx
                /\ wlock' = "None"]_vars
    /\ [][\A c \in Callers :
            pc[c] = "flush" /\ wlock = c /\ Len(tx'.rows) = Len(tx.rows) + 1 =>
                ~UniqueViolation(inventory_tx \o tx.rows, tx'.rows[Len(tx'.rows)])]_vars
    /\ [](\A c \in Callers :
            DoneCommit(c) /\ local[c].result = "DUPLICATE_REQUEST_ID" =>
                CommittedOf(c) = 0)
    /\ [][\A c, d \in Callers :
            /\ DoneCommit(c)
            /\ local[c].result = "DUPLICATE_REQUEST_ID"
            /\ pc[d] = "read_head"
            /\ pc'[d] = "calc_stock"
            /\ local[d].item = local[c].item
            /\ stock_heads[local[c].item].version = local[c].expected_version
            => local'[d].expected_version = local[c].expected_version]_vars

\* C27 witness: one call, a batch carrying the same request_id twice, failed on
\* a fresh ledger after its first entry was flushed; another, whose second
\* entry reuses a request_id committed since, failed after its first entry was
\* flushed behind the bump of version 1: the ledger holds the one committed
\* entry and the version is still 1.
C27_Witness ==
    \E c, d \in Callers :
        /\ DoneCommit(c)
        /\ local[c].result = "DUPLICATE_REQUEST_ID"
        /\ KeyTwice(local[c])
        /\ local[c].expected_version = 0
        /\ DoneCommit(d)
        /\ local[d].result = "DUPLICATE_REQUEST_ID"
        /\ ~KeyTwice(local[d])
        /\ Len(local[d].tx_inputs) = 2
        /\ local[d].expected_version = 1
        /\ KeyTaken(inventory_tx, local[d])
        /\ Len(inventory_tx) = 1
        /\ stock_heads[local[d].item].version = 1

\* the request of caller c is past the loading of its product, not yet ended
InFlight(c) == pc[c] \in {"read_head", "calc_stock", "write", "commit"}

\* the product of the request is active with a stock head, its request_ids are
\* carried by no committed entry and by no two intents of the batch, and no
\* other commit on the product is under way
C28_Pre(c) ==
    /\ items[local[c].item].exists
    /\ items[local[c].item].active
    /\ stock_heads[local[c].item].exists
    /\ ~KeyTaken(inventory_tx, local[c])
    /\ ~KeyTwice(local[c])
    /\ \A d \in Callers \ {c} : ~(InFlight(d) /\ local[d].item = local[c].item)

\* C28: a commit on an active product with a stock head, valid intents, unused
\* request_ids and no overlapping commit on the product succeeds if and only if
\* new_on_hand >= 0, new_reserved >= 0 and new_on_hand - new_reserved >= 0: a
\* batch that brings on_hand or available to exactly 0 succeeds, one that
\* brings it to -1 fails.
C28_SucceedsIffInvariantsHold ==
    /\ [][\A c \in Callers :
            /\ pc[c] = "idle"
            /\ pc'[c] # "idle"
            /\ local'[c].op = "commit"
            /\ local'[c].raw = << >>
            /\ local'[c].tx_inputs # << >>
            /\ items[local'[c].item].exists
            /\ items[local'[c].item].active
            => pc'[c] = "read_head"]_vars
    /\ [][\A c \in Callers :
            InFlight(c) /\ pc'[c] = "done" /\ C28_Pre(c) =>
                (local'[c].result = "OK"
                    <=> /\ NetOnHand(local[c]) >= 0
                        /\ NetReserved(local[c]) >= 0
                        /\ NetOnHand(local[c]) - NetReserved(local[c]) >= 0)]_vars

\* C28 witness: a batch of an IN and an OUT of 1 was committed, leaving on_hand
\* and available at exactly 0, and the next commit, an OUT of 1 that would
\* bring on_hand to -1, was refused.
C28_Witness ==
    \E c \in Callers :
        /\ DoneCommit(c)
        /\ local[c].result = "INSUFFICIENT_ON_HAND"
        /\ NetOnHand(local[c]) = -1
        /\ OnHand(local[c].item) = 0
        /\ Len(inventory_tx) = 2
        /\ inventory_tx[2].type = "OUT"
        /\ inventory_tx[2].item_id = local[c].item
        /\ stock_heads[local[c].item].version = 1

\* caller c takes the step that abandons its transactions request
Abandons(c) ==
    /\ pc[c] \in BeforeCommit
    /\ pc'[c] = "done"
    /\ local'[c].result = "ABANDONED"

\* C29: a commit attempt abandoned at any step before the final commit of the
\* store, also after the version bump and after some or all of its entries
\* were flushed inside the atomic unit, leaves the committed
\* StockHead.version and ledger unchanged, and no partial effect of it is ever
\* visible.
C29_AbandonedCommitLeavesNothing ==
    /\ [][\A c \in Callers :
            Abandons(c) =>
                /\ inventory_tx' = inventory_tx
                /\ stock_heads' = stock_heads
                /\ wlock = c => tx' = NoTx /\ wlock' = "None"
                /\ \A d \in Callers \ {c} :
                      /\ SessionRows(d)' = SessionRows(d)
                      /\ local[d].item \in Products =>
                            SessionVersion(d, local[d].item)'
                                = SessionVersion(d, local[d].item)]_vars
    /\ [](\A c \in Callers :
            DoneCommit(c) /\ local[c].result = "ABANDONED" =>
                /\ CommittedOf(c) = 0
                /\ wlock # c)
    /\ [][\A c, d \in Callers :
            /\ DoneCommit(c)
            /\ local[c].result = "ABANDONED"
            /\ local[c].created # << >>
            /\ pc[d] = "read_head"
            /\ pc'[d] = "calc_stock"
            /\ local[d].item = local[c].item
            /\ stock_heads[local[c].item].version = local[c].expected_version
            => local'[d].expected_version = local[c].expected_version]_vars

\* C29 witness: an attempt was abandoned with both entries of its batch
\* flushed behind the bump of version 0; a commit that started after it, with
\* the same request_id, has read version 0 and has committed: the ledger holds
\* its two entries alone and the version is 1.
C29_Witness ==
    \E c, d \in Callers :
        /\ DoneCommit(c)
        /\ local[c].result = "ABANDONED"
        /\ Len(local[c].tx_inputs) = 2
        /\ Len(local[c].created) = 2
        /\ local[c].expected_version = 0
        /\ DoneCommit(d)
        /\ local[d].result = "OK"
        /\ local[d].req > local[c].req
        /\ local[d].item = local[c].item
        /\ local[d].tx_inputs = local[c].tx_inputs
        /\ local[d].expected_version = 0
        /\ CommittedOf(d) = 2
        /\ Len(inventory_tx) = 2
        /\ stock_heads[local[c].item].version = 1

\* C30: every committed ledger entry has a non-zero qty_delta; entries of type
\* IN, OUT and ADJUST have bucket ON_HAND and entries of type RESERVE and
\* UNRESERVE have bucket RESERVED (ADJUST never targets RESERVED); the deltas
\* of IN and RESERVE are positive, those of OUT and UNRESERVE negative.
C30_EntriesWellFormed ==
    \A i \in 1..Len(inventory_tx) :
        LET r == inventory_tx[i]
        IN /\ r.qty_delta # 0
           /\ r.type \in TxTypes
           /\ r.type \in {"IN", "OUT", "ADJUST"} => r.bucket = "ON_HAND"
           /\ r.type \in {"RESERVE", "UNRESERVE"} => r.bucket = "RESERVED"
           /\ r.type \in {"IN", "RESERVE"} => r.qty_delta > 0
           /\ r.type \in {"OUT", "UNRESERVE"} => r.qty_delta < 0

\* C30 witness: two batches are committed, an IN with a RESERVE and then an
\* UNRESERVE with an ADJUST that decreases: the ledger holds entries of both
\* buckets and of both signs.
C30_Witness ==
    /\ Len(inventory_tx) = 4
    /\ inventory_tx[1].type = "IN"
    /\ inventory_tx[2].type = "RESERVE"
    /\ inventory_tx[3].type = "UNRESERVE"
    /\ inventory_tx[4].type = "ADJUST"
    /\ inventory_tx[4].qty_delta < 0
    /\ inventory_tx[2].bucket = "RESERVED"
    /\ inventory_tx[3].qty_delta < 0

\* the item of product p in the answer data, if it is there
ItemsOf(data, p) == {data[i] : i \in {j \in 1..Len(data) : data[j].product_id = p}}

\* C31: soft-deleting a product sets active to false and leaves its ledger
\* entries and its StockHead.version as they were: the projection of the
\* product is the same before and after, and the product still appears with
\* its stock in the listings that include inactive products.
C31_DeactivationKeepsLedger ==
    /\ [][\A p \in Products :
            items[p].exists /\ items[p].active /\ ~items'[p].active =>
                /\ items'[p].exists
                /\ inventory_tx' = inventory_tx
                /\ stock_heads' = stock_heads
                /\ calc_stock(inventory_tx', p) = calc_stock(inventory_tx, p)
                /\ p \in SelectedItems(TRUE)'
                /\ p \notin SelectedItems(FALSE)'
                /\ StockListRow(p)'.on_hand = StockListRow(p).on_hand
                /\ StockListRow(p)'.reserved_total = StockListRow(p).reserved_total]_vars
    /\ [][\A c \in Callers :
            pc[c] = "idle" /\ pc'[c] = "done" /\ local'[c].op = "stock_list" =>
                LET q == local'[c].query
                    shown == {p \in Products :
                                items[p].exists /\ (q.include_inactive \/ items[p].active)}
                IN /\ local'[c].total = Cardinality(shown)
                   /\ \A i \in 1..Len(local'[c].data) :
                         local'[c].data[i].product_id \in shown
                   /\ q.page = 1 /\ q.per_page >= Cardinality(shown) =>
                         \A p \in shown :
                            \E d \in ItemsOf(local'[c].data, p) :
                               /\ d.on_hand = calc_stock(inventory_tx, p).on_hand
                               /\ d.reserved_total = calc_stock(inventory_tx, p).reserved
                               /\ d.available = calc_stock(inventory_tx, p).available]_vars

\* C31 witness: a product holding one unit on hand and one reserved was
\* deactivated; the stock list asked with include_inactive shows it with
\* on_hand 1, reserved_total 1 and available 0, its StockHead.version still 2.
C31_Witness ==
    \E c \in Callers, p \in Products :
        /\ pc[c] = "done"
        /\ local[c].op = "stock_list"
        /\ local[c].query.include_inactive
        /\ items[p].exists
        /\ ~items[p].active
        /\ stock_heads[p].version = 2
        /\ Len(EntriesOf(inventory_tx, p)) = 2
        /\ \E d \in ItemsOf(local[c].data, p) :
              d.on_hand = 1 /\ d.reserved_total = 1 /\ d.available = 0

\* caller c takes the step that ends its update_item request with success
UpdateSucceeds(c) ==
    /\ pc[c] = "update_commit"
    /\ pc'[c] = "done"
    /\ local'[c].op = "update"
    /\ local'[c].result = "OK"

\* C32: update_item succeeds only when the submitted version equals the
\* product's stored version at the time the update is applied, and then
\* increases Item.version by exactly 1; with a different version it fails with
\* CONFLICT and changes nothing; of two concurrent update_item calls that
\* submit the same version, at most one succeeds (no lost update).
C32_NoLostUpdate ==
    /\ [][\A c \in Callers :
            UpdateSucceeds(c) =>
                /\ items[local[c].item].version = local[c].item_version
                /\ items'[local[c].item].version = items[local[c].item].version + 1]_vars
    /\ [][\A c \in Callers :
            /\ pc[c] # "done"
            /\ pc'[c] = "done"
            /\ local'[c].op = "update"
            /\ local'[c].result = "CONFLICT"
            => items' = items /\ stock_heads' = stock_heads
               /\ inventory_tx' = inventory_tx]_vars
    /\ [](\A c, d \in Callers :
            /\ c # d
            /\ pc[c] = "done" /\ local[c].op = "update" /\ local[c].result = "OK"
            /\ pc[d] = "done" /\ local[d].op = "update" /\ local[d].result = "OK"
            /\ local[c].item = local[d].item
            => local[c].item_version # local[d].item_version)

\* the commit calls on product p that have succeeded so far
WinsOn(p) == {w \in wins : w.item = p}

\* C33: in every reachable state the StockHead.version of a product is the
\* number of commit calls on it that have succeeded so far; the successful
\* commits on one product carry pairwise distinct expected versions 0, 1, 2,
\* ... without gaps, a total order of the commits of the product; and the
\* version never decreases.
C33_VersionCountsCommits ==
    /\ [](\A p \in Products :
            /\ stock_heads[p].version = Cardinality(WinsOn(p))
            /\ {w.expected_version : w \in WinsOn(p)} = 0..(stock_heads[p].version - 1)
            /\ \A v, w \in WinsOn(p) :
                  v.expected_version = w.expected_version => v = w)
    /\ [][\A p \in Products : stock_heads'[p].version >= stock_heads[p].version]_vars

\* C33 witness: two commits on one product have succeeded, on versions 0 and 1,
\* and a third that had read version 1 with the second has lost with CONFLICT:
\* the version is 2.
C33_Witness ==
    \E c \in Callers :
        /\ DoneCommit(c)
        /\ local[c].result = "CONFLICT"
        /\ local[c].expected_version = 1
        /\ stock_heads[local[c].item].version = 2
        /\ Cardinality(WinsOn(local[c].item)) = 2

\* C34: CONFLICT is returned only if another commit on the same product
\* committed between the version read of the attempt and its conditional
\* update (or the stock head is missing), so a commit that overlaps no other
\* commit on its product never gets CONFLICT; and with finitely many
\* contending callers that each retry on CONFLICT, every caller eventually
\* receives an outcome that is not CONFLICT.
C34_ConflictOnlyFromRaceAndRetriesEnd ==
    /\ [][\A c \in Callers :
            FailsWith(c, "CONFLICT") =>
                \/ ~stock_heads[local[c].item].exists
                \/ /\ pc[c] = "write"
                   /\ \E w \in WinsOn(local[c].item) :
                         /\ w.req # local[c].req
                         /\ w.expected_version = local[c].expected_version
                         /\ stock_heads[local[c].item].version > local[c].expected_version]_vars
    /\ \A c \in Callers :
          (local[c].op = "commit" /\ pc[c] # "done")
             ~> (DoneCommit(c) /\ local[c].result # "CONFLICT")

\* C34 witness: a request that lost a race with CONFLICT on version 0 was
\* sent again, read version 1 and has committed: the version is 2.
C34_Witness ==
    \E c \in Callers :
        /\ DoneCommit(c)
        /\ local[c].result = "OK"
        /\ local[c].expected_version = 1
        /\ \E w \in WinsOn(local[c].item) :
              /\ w.req > local[c].req
              /\ w.expected_version = 0
        /\ stock_heads[local[c].item].version = 2

\* C35: every advance of StockHead.version comes with at least one and at
\* most ten new ledger entries: in every reachable state the number of
\* committed entries of a product is at least its StockHead.version and at
\* most 10 times that version.
C35_EntriesBetweenVersionAndTenfold ==
    /\ [](\A p \in Products :
            /\ Len(EntriesOf(inventory_tx, p)) >= stock_heads[p].version
            /\ Len(EntriesOf(inventory_tx, p)) <= BatchMaxLength * stock_heads[p].version)
    /\ [][\A p \in Products :
            stock_heads'[p].version # stock_heads[p].version =>
                LET n == Len(EntriesOf(inventory_tx', p)) - Len(EntriesOf(inventory_tx, p))
                IN /\ stock_heads'[p].version = stock_heads[p].version + 1
                   /\ n >= BatchMinLength
                   /\ n <= BatchMaxLength]_vars

\* C35 witness: one product took a batch of ten entries in one commit, another
\* a single entry: both are at version 1, one at each end of the range.
C35_Witness ==
    \E p, q \in Products :
        /\ stock_heads[p].version = 1
        /\ Len(EntriesOf(inventory_tx, p)) = BatchMaxLength
        /\ stock_heads[q].version = 1
        /\ Len(EntriesOf(inventory_tx, q)) = 1

\* C36: deactivation is absorbing: no operation (update_item, delete_item,
\* commit, creation of another product) sets the active flag of a product back
\* to true, so once a product is inactive its ledger and its
\* StockHead.version stay constant in all later states.
C36_DeactivationAbsorbing ==
    [][\A p \in Products :
        items[p].exists /\ ~items[p].active =>
            /\ items'[p].exists
            /\ ~items'[p].active
            /\ EntriesOf(inventory_tx', p) = EntriesOf(inventory_tx, p)
            /\ stock_heads'[p].version = stock_heads[p].version]_vars

\* the permutations of the places 1..n
Perms(n) == {f \in [1..n -> 1..n] : \A i, j \in 1..n : i # j => f[i] # f[j]}

\* the batch with its intents in the order f
Permuted(body, f) == [i \in 1..Len(body) |-> body[f[i]]]

\* an entry without its id
Unnumbered(r) ==
    [item_id |-> r.item_id, type |-> r.type, bucket |-> r.bucket,
     qty_delta |-> r.qty_delta, reason |-> r.reason, request_id |-> r.request_id]

\* C37: permuting the intents of a batch does not change the outcome of commit
\* from a given state: the same success or the same error kind, the same
\* resulting StockLevel and the same version bump; only the order of the
\* created entries differs (the idempotency keys being the same set).
C37_PermutationSameOutcome ==
    [][\A c \in Callers :
        pc[c] # "done" /\ pc'[c] = "done" /\ local'[c].op = "commit" =>
            LET loc == local'[c]
                p == loc.item
                body == IF loc.result = "VALIDATION_ERROR" THEN loc.raw
                        ELSE loc.tx_inputs
            IN \A f \in Perms(Len(body)) :
                  LET o == post_transactions(inventory_tx, stock_heads[p].version,
                                             items[p], p, Permuted(body, f), loc.req)
                      new == SubSeq(o.rows, Len(inventory_tx) + 1, Len(o.rows))
                  IN /\ o.result = loc.result
                     /\ o.result # "OK" => new = << >> /\ o.version = stock_heads'[p].version
                     /\ o.result = "OK" =>
                           /\ o.stock = loc.new_stock
                           /\ o.stock = calc_stock(inventory_tx', p)
                           /\ o.version = stock_heads'[p].version
                           /\ Len(new) = Len(loc.created)
                           /\ \A i \in 1..Len(new) :
                                 Unnumbered(new[i]) = Unnumbered(loc.created[f[i]])]_vars

\* C37 witness: on a product holding nothing, the batch OUT 1, IN 1 has
\* committed as the batch IN 1, OUT 1 does: two entries, the OUT first, on_hand
\* back at 0 and the version at 1.
C37_Witness ==
    \E c \in Callers :
        /\ DoneCommit(c)
        /\ local[c].result = "OK"
        /\ Len(local[c].tx_inputs) = 2
        /\ local[c].tx_inputs[1].type = "OUT"
        /\ local[c].tx_inputs[2].type = "IN"
        /\ local[c].expected_version = 0
        /\ local[c].created[1].type = "OUT"
        /\ local[c].new_stock.on_hand = 0
        /\ stock_heads[local[c].item].version = 1

\* caller c takes the step that answers a stock list or a top-N request
AnswersStock(c) ==
    /\ pc[c] = "idle"
    /\ pc'[c] = "done"
    /\ local'[c].op \in {"stock_list", "top"}

\* C38: the bulk stock breakdown agrees with the projection of each product:
\* for every product and every reachable ledger, the on_hand, reserved_total
\* and available that query_stock_list and query_stock_top report are the
\* on_hand, reserved and available of calc_stock of the product, and a product
\* with no entries reports 0 for all three.
C38_BreakdownAgreesWithProjection ==
    [][\A c \in Callers :
        AnswersStock(c) =>
            \A i \in 1..Len(local'[c].data) :
                LET d == local'[c].data[i]
                    level == calc_stock(inventory_tx, d.product_id)
                IN /\ d.on_hand = level.on_hand
                   /\ d.reserved_total = level.reserved
                   /\ d.available = level.available
                   /\ EntriesOf(inventory_tx, d.product_id) = << >> =>
                         d.on_hand = 0 /\ d.reserved_total = 0 /\ d.available = 0]_vars

\* C38 witness: the stock list shows two products, one with two units on hand
\* and one of them reserved, the other without any entry and all three
\* quantities 0.
C38_Witness ==
    \E c \in Callers, p, q \in Products :
        /\ pc[c] = "done"
        /\ local[c].op = "stock_list"
        /\ Len(local[c].data) = 2
        /\ Len(EntriesOf(inventory_tx, p)) = 3
        /\ EntriesOf(inventory_tx, q) = << >>
        /\ \E d \in ItemsOf(local[c].data, p) :
              d.on_hand = 2 /\ d.reserved_total = 1 /\ d.available = 1
        /\ \E d \in ItemsOf(local[c].data, q) :
              d.on_hand = 0 /\ d.reserved_total = 0 /\ d.available = 0

\* C39: for every product and every reachable ledger the reason-filtered
\* sub-sums are a breakdown of the reserved quantity: reserved_pending_return
\* >= 0, reserved_pending_order >= 0, and reserved_pending_return +
\* reserved_pending_order <= reserved_total, also after a RESERVE with reason
\* RETURN_PENDING followed by an UNRESERVE with another reason.
C39_PendingSumsWithinReserved ==
    \A p \in Products :
        items[p].exists =>
            LET row == row_to_stock_list_item(StockListRow(p))
            IN /\ row.reserved_pending_return >= 0
               /\ row.reserved_pending_order >= 0
               /\ row.reserved_pending_return + row.reserved_pending_order
                     <= row.reserved_total

\* a step of the startup backfill that changes stock_heads
BackfillStep ==
    /\ stock_heads' # stock_heads
    /\ items' = items
    /\ inventory_tx' = inventory_tx
    /\ pc' = pc

\* C40: a commit against an active product that has no StockHead row fails
\* with CONFLICT before any resolution, projection or write, leaving the ledger
\* unchanged; the startup backfill creates a StockHead of version 0 for every
\* product lacking one and leaves the versions of the existing ones unchanged,
\* and running it again changes nothing.
C40_MissingHeadConflictsAndBackfill ==
    /\ [][\A c \in Callers :
            /\ pc[c] = "read_head"
            /\ pc'[c] # "read_head"
            /\ ~stock_heads[local[c].item].exists
            => /\ FailsWith(c, "CONFLICT")
               /\ items[local[c].item].active
               /\ inventory_tx' = inventory_tx
               /\ stock_heads' = stock_heads
               /\ tx' = tx
               /\ local'[c].new_stock = NoStock
               /\ local'[c].created = << >>]_vars
    /\ [](\A c \in Callers :
            DoneCommit(c) /\ local[c].result = "CONFLICT" => CommittedOf(c) = 0)
    /\ [][BackfillStep =>
            \A p \in Products :
               /\ items[p].exists => stock_heads'[p].exists
               /\ items[p].exists /\ ~stock_heads[p].exists =>
                     stock_heads'[p].version = 0
               /\ stock_heads[p].exists \/ ~items[p].exists =>
                     stock_heads'[p] = stock_heads[p]]_vars
    /\ [](Backfilled(items, Backfilled(items, stock_heads))
            = Backfilled(items, stock_heads))
    /\ []((\A p \in Products : items[p].exists => stock_heads[p].exists)
            => Backfilled(items, stock_heads) = stock_heads)

\* C40 witness: a commit on a product without StockHead was answered CONFLICT
\* and left no entry; the backfill has since given the product a StockHead of
\* version 0, while the other product, committed once, keeps version 1.
C40_Witness ==
    \E c \in Callers, q \in Products :
        /\ DoneCommit(c)
        /\ local[c].result = "CONFLICT"
        /\ items[local[c].item].active
        /\ local[c].new_stock = NoStock
        /\ EntriesOf(inventory_tx, local[c].item) = << >>
        /\ WinsOn(local[c].item) = {}
        /\ stock_heads[local[c].item].exists
        /\ stock_heads[local[c].item].version = 0
        /\ q # local[c].item
        /\ stock_heads[q].version = 1
        /\ Len(EntriesOf(inventory_tx, q)) = 1

====
